---------------------------- MODULE Spec2Model ----------------------------
(***************************************************************************)
(* Timing and judgment engine of the CS125 rhythm game.                    *)
(*                                                                         *)
(* Units: times are integer milliseconds (pygame.time.get_ticks() is an    *)
(* integer number of ms, CSV timestamps are rounded to 3 decimals of a     *)
(* second, time.time() is read at ms resolution); positions are integer    *)
(* pixels (pygame.Rect stores ints and truncates a float toward zero);     *)
(* the arrow speed 9.44 px/frame is kept in hundredths of a pixel.         *)
(***************************************************************************)
EXTENDS Integers, Sequences, FiniteSets, TLC

(***************************************************************************)
(* Program constants                                                       *)
(***************************************************************************)
WINDOW_HEIGHT == 900
HIT_MARGIN_PERFECT == 20
HIT_MARGIN_GOOD == 65
HIT_MARGIN_LATE == 100
SCORE_PERFECT == 100
SCORE_GOOD == 50
SCORE_LATE == 25
SCORE_MISS == 0
\* BASE_ARROW_SPEED = 9.44 px per frame, in hundredths of a pixel
BASE_ARROW_SPEED_X100 == 944
\* SPAWN_WINDOW = 1.55 s
SPAWN_WINDOW == 1550
\* MUSIC_START_DELAY = 5.0 s
MUSIC_START_DELAY == 5000
\* VIDEO_START_DELAY = 4.4 s
VIDEO_START_DELAY == 4400
HIT_ZONE_EDGE_DISTANCE == 150
\* IMAGE_SIZE = (250, 150): every arrow and outline image
IMAGE_WIDTH == 250
IMAGE_HEIGHT == 150
\* spawn_positions[key][1]
SPAWN_Y == -100
\* the margin of the gravity-mode spawn anchor: rect.bottom = WINDOW_HEIGHT + 100
GRAVITY_SPAWN_MARGIN == 100
\* HitDetector.key_cooldown = 0.05 s
key_cooldown == 50
\* Game.countdown_duration
countdown_duration == 5000
\* random.uniform(15.0, 30.0) seconds
GRAVITY_SWITCH_MIN == 15000
GRAVITY_SWITCH_MAX == 30000
\* the delay between the end-of-session trigger and the results popup
RESULTS_DELAY == 1000

\* ArrowSpawner.key_to_arrow / OutlineManager.key_to_outline_key: the four lanes
Keys == {"d", "f", "j", "k"}

\* spawn_positions[key][0]
spawn_x(key) ==
    CASE key = "d" -> 270
      [] key = "f" -> 540
      [] key = "j" -> 810
      [] key = "k" -> 1080

\* outline_positions[key][0]
outline_x(key) ==
    CASE key = "d" -> 270
      [] key = "f" -> 540
      [] key = "j" -> 810
      [] key = "k" -> 1080

Max(a, b) == IF a >= b THEN a ELSE b
Min(a, b) == IF a <= b THEN a ELSE b
Abs(a) == IF a >= 0 THEN a ELSE -a

\* C's (int) cast of a value given in hundredths: truncation toward zero,
\* which is how pygame.Rect stores a float assigned to one of its fields
TruncX100(n) == IF n >= 0 THEN n \div 100 ELSE -((-n) \div 100)

(***************************************************************************)
(* Sprites: an arrow is [id, key, y, hy] with y = rect.y and hy = hitbox.y; *)
(* rect.x is spawn_x(key) for its whole life. An outline is its rect.y.    *)
(***************************************************************************)
\* Tiles.__init__: hitbox = Rect(0, 0, width * 0.8, height * 0.8)
hitbox_width == (IMAGE_WIDTH * 8) \div 10
hitbox_height == (IMAGE_HEIGHT * 8) \div 10

\* pygame.Rect.centery of a rect at y with height h
CenterY(y, h) == y + (h \div 2)
CenterX(x, w) == x + (w \div 2)

\* hitbox.center = rect.center: the hitbox's y once centred on a rect at y
HitboxYFor(y) == CenterY(y, IMAGE_HEIGHT) - (hitbox_height \div 2)
HitboxX(key) == CenterX(spawn_x(key), IMAGE_WIDTH) - (hitbox_width \div 2)

\* Tiles.__init__: rect at spawn_positions[key], hitbox centred on it
NewTile(id, key) ==
    [id |-> id, key |-> key, y |-> SPAWN_Y, hy |-> HitboxYFor(SPAWN_Y)]

\* a variant: every tile stays at the top anchor
PlaceTileAtTop(tile, gravity) == [tile EXCEPT !.y = SPAWN_Y]

\* spawn_arrow: rect.bottom = WINDOW_HEIGHT + 100 in gravity mode, rect.top = -100
\* otherwise; the hitbox is left where the constructor put it
PlaceTile(tile, gravity) ==
    IF gravity
    THEN [tile EXCEPT !.y = WINDOW_HEIGHT + GRAVITY_SPAWN_MARGIN - IMAGE_HEIGHT]
    ELSE [tile EXCEPT !.y = SPAWN_Y]

\* rect.y += speed, with speed = -arrow_speed in gravity mode
MoveY(y, gravity) ==
    IF gravity THEN TruncX100(y * 100 - BASE_ARROW_SPEED_X100)
    ELSE TruncX100(y * 100 + BASE_ARROW_SPEED_X100)

\* Tiles.update(speed): move the rect, re-centre the hitbox
TileUpdate(a, gravity) ==
    [a EXCEPT !.y = MoveY(a.y, gravity), !.hy = HitboxYFor(MoveY(a.y, gravity))]

\* Tiles.update: the sprite kills itself below the window
TileKilled(a) == a.y > WINDOW_HEIGHT

\* OutlineManager.add_outlines / update_outline_positions: outline.rect.y
OutlineY(gravity) ==
    IF gravity THEN HIT_ZONE_EDGE_DISTANCE - IMAGE_HEIGHT
    ELSE WINDOW_HEIGHT - HIT_ZONE_EDGE_DISTANCE


(***************************************************************************)
(* HitDetector: scoring (hit_detection.py)                                 *)
(* A detector is [score, combo, max_combo, misses, hit_type].              *)
(***************************************************************************)
\* HitDetector.__init__
NewHitDetector ==
    [score |-> 0, combo |-> 0, max_combo |-> 0, misses |-> 0, hit_type |-> ""]

\* a variant: tiers taken from the combo after the increment
multiplier_after_increment(hd) ==
    IF hd.combo + 1 >= 300 THEN 4
    ELSE IF hd.combo + 1 >= 200 THEN 3
    ELSE IF hd.combo + 1 >= 100 THEN 2
    ELSE 1

\* a variant: no 4x tier
multiplier_without_top_tier(hd) ==
    IF hd.combo >= 200 THEN 3
    ELSE IF hd.combo >= 100 THEN 2
    ELSE 1

\* HitDetector.get_combo_multiplier
get_combo_multiplier(hd) ==
    IF hd.combo >= 300 THEN 4
    ELSE IF hd.combo >= 200 THEN 3
    ELSE IF hd.combo >= 100 THEN 2
    ELSE 1

\* HitDetector.apply_score
apply_score(hd, base_score) == base_score * get_combo_multiplier(hd)

\* a variant: a hit that is also counted as a miss
handle_hit_and_miss(hd, hit_type, base_score) ==
    [hd EXCEPT !.hit_type = hit_type,
               !.score = hd.score + base_score,
               !.combo = hd.combo + 1,
               !.max_combo = Max(hd.max_combo, hd.combo + 1),
               !.misses = hd.misses + 1]

\* HitDetector._handle_hit, the counters (the removal of the arrow is in check_hit's
\* action below)
handle_hit(hd, hit_type, base_score) ==
    [hd EXCEPT !.hit_type = hit_type,
               !.score = hd.score + apply_score(hd, base_score),
               !.combo = hd.combo + 1,
               !.max_combo = Max(hd.max_combo, hd.combo + 1)]

\* a variant: a miss that keeps the combo
handle_miss_keeping_combo(hd) ==
    [hd EXCEPT !.hit_type = "Miss",
               !.score = hd.score + SCORE_MISS,
               !.misses = hd.misses + 1]

\* a variant: a miss that costs a Late hit's points
handle_miss_with_penalty(hd) ==
    [hd EXCEPT !.combo = 0,
               !.hit_type = "Miss",
               !.score = Max(0, hd.score - SCORE_LATE),
               !.misses = hd.misses + 1]

\* a variant: a miss that also resets the best combo
handle_miss_resetting_best(hd) ==
    [hd EXCEPT !.combo = 0,
               !.max_combo = 0,
               !.hit_type = "Miss",
               !.score = hd.score + SCORE_MISS,
               !.misses = hd.misses + 1]

\* HitDetector._handle_miss
handle_miss(hd) ==
    [hd EXCEPT !.combo = 0,
               !.hit_type = "Miss",
               !.score = hd.score + SCORE_MISS,
               !.misses = hd.misses + 1]

\* HitDetector.check_miss, called once per arrow the sweep retires: n calls in a row
RECURSIVE check_miss_times(_, _)
check_miss_times(hd, n) ==
    IF n = 0 THEN hd ELSE check_miss_times(handle_miss(hd), n - 1)

(***************************************************************************)
(* HitDetector.check_hit: the judgment of one key press that passed the    *)
(* cooldown, as [hit_type, base, removed]                                  *)
(***************************************************************************)
\* a variant: the arrows of every lane are candidates
possible_hits_any_lane(key, group) == group

\* line 109: the arrows of the group whose key is the pressed one
possible_hits(key, group) == {a \in group : a.key = key}

\* abs(a.hitbox.centery - outline_sprite.rect.centery)
center_dist(a, oy) ==
    Abs(CenterY(a.hy, hitbox_height) - CenterY(oy, IMAGE_HEIGHT))

\* a variant: the lane's first arrow in insertion order, without the sort
first_arrow(key, group, oy) ==
    CHOOSE a \in possible_hits(key, group) :
        \A b \in possible_hits(key, group) : a.id <= b.id

\* possible_hits.sort(key = distance)[0]: the sort is stable and a Group iterates in
\* insertion order, so ties go to the arrow added first (the smaller id)
closest_arrow(key, group, oy) ==
    CHOOSE a \in possible_hits(key, group) :
        \A b \in possible_hits(key, group) :
            \/ center_dist(a, oy) < center_dist(b, oy)
            \/ (center_dist(a, oy) = center_dist(b, oy) /\ a.id <= b.id)

\* hitbox.right >= outline.left and hitbox.left <= outline.right
horizontal_overlap(a, key) ==
    /\ HitboxX(a.key) + hitbox_width >= outline_x(key)
    /\ HitboxX(a.key) <= outline_x(key) + IMAGE_WIDTH

\* min(hitbox.bottom, outline.bottom) - max(hitbox.top, outline.top)
vertical_overlap(a, oy) ==
    Min(a.hy + hitbox_height, oy + IMAGE_HEIGHT) - Max(a.hy, oy)

is_late(a, oy) == CenterY(a.hy, hitbox_height) > CenterY(oy, IMAGE_HEIGHT)

\* a variant: the hitbox lies inside the outline's vertical extent
is_contained_in_outline(a, oy) ==
    /\ a.hy >= oy
    /\ a.hy + hitbox_height <= oy + IMAGE_HEIGHT

is_within_outline(a, oy) ==
    /\ a.hy + hitbox_height >= oy
    /\ a.hy <= oy + IMAGE_HEIGHT

MissOutcome == [hit_type |-> "Miss", base |-> SCORE_MISS, removed |-> {}]

\* a variant: timing windows that exclude their upper bounds
classify_exclusive(a, oy) ==
    IF center_dist(a, oy) < HIT_MARGIN_PERFECT
    THEN [hit_type |-> "Perfect", base |-> SCORE_PERFECT, removed |-> {a}]
    ELSE IF center_dist(a, oy) < HIT_MARGIN_GOOD
    THEN [hit_type |-> "Good", base |-> SCORE_GOOD, removed |-> {a}]
    ELSE IF is_within_outline(a, oy) /\ center_dist(a, oy) < HIT_MARGIN_LATE
    THEN [hit_type |-> IF is_late(a, oy) THEN "Late" ELSE "Early",
          base |-> SCORE_LATE, removed |-> {a}]
    ELSE MissOutcome

\* the timing windows, lines 151-158
classify(a, oy) ==
    IF center_dist(a, oy) <= HIT_MARGIN_PERFECT
    THEN [hit_type |-> "Perfect", base |-> SCORE_PERFECT, removed |-> {a}]
    ELSE IF center_dist(a, oy) <= HIT_MARGIN_GOOD
    THEN [hit_type |-> "Good", base |-> SCORE_GOOD, removed |-> {a}]
    ELSE IF is_within_outline(a, oy) /\ center_dist(a, oy) <= HIT_MARGIN_LATE
    THEN [hit_type |-> IF is_late(a, oy) THEN "Late" ELSE "Early",
          base |-> SCORE_LATE, removed |-> {a}]
    ELSE MissOutcome

\* a variant: a hit removes every arrow of the pressed lane
judge_removing_lane(key, group, outlines) ==
    IF possible_hits(key, group) = {} THEN MissOutcome
    ELSE IF key \notin DOMAIN outlines THEN MissOutcome
    ELSE LET a == closest_arrow(key, group, outlines[key])
         IN  IF ~horizontal_overlap(a, key) THEN MissOutcome
             ELSE IF vertical_overlap(a, outlines[key]) <= 0 THEN MissOutcome
             ELSE IF classify(a, outlines[key]).hit_type = "Miss" THEN MissOutcome
             ELSE [classify(a, outlines[key]) EXCEPT !.removed = possible_hits(key, group)]

\* lines 109-158: candidate selection, the two overlap gates, the classification
judge(key, group, outlines) ==
    IF possible_hits(key, group) = {} THEN MissOutcome
    ELSE IF key \notin DOMAIN outlines THEN MissOutcome
    ELSE LET a == closest_arrow(key, group, outlines[key])
         IN  IF ~horizontal_overlap(a, key) THEN MissOutcome
             ELSE IF vertical_overlap(a, outlines[key]) <= 0 THEN MissOutcome
             ELSE classify(a, outlines[key])

\* a variant: a cooldown that still holds at exactly key_cooldown
in_cooldown_inclusive(key, lkp, current_time) ==
    /\ key \in DOMAIN lkp
    /\ current_time - lkp[key] <= key_cooldown

\* lines 102-104: the press is dropped when the key was pressed less than
\* key_cooldown ago
in_cooldown(key, lkp, current_time) ==
    /\ key \in DOMAIN lkp
    /\ current_time - lkp[key] < key_cooldown

\* line 107: last_key_press_time[key] = current_time
record_press(key, lkp, current_time) ==
    [k \in (DOMAIN lkp) \cup {key} |-> IF k = key THEN current_time ELSE lkp[k]]

(***************************************************************************)
(* ArrowSpawner: the timeline (arrow_spawner.py)                           *)
(* A CSV row is [timestamp, keys]: the timestamp already rounded to ms,    *)
(* the key cell already split into its identifiers.                        *)
(***************************************************************************)
\* the timestamp of a row whose timestamp cell float() rejects (line 189 raises)
NotANumber == -1

\* a variant: a row with an unrecognized identifier keeps no key at all
valid_keys_all_or_nothing(keys) ==
    IF \A i \in 1..Len(keys) : keys[i] \in Keys THEN keys ELSE <<>>

RECURSIVE valid_keys(_)
\* add_timestamps, lines 198-204: the identifiers of key_to_arrow, in order
valid_keys(keys) ==
    IF keys = <<>> THEN <<>>
    ELSE IF Head(keys) \in Keys THEN <<Head(keys)>> \o valid_keys(Tail(keys))
    ELSE valid_keys(Tail(keys))

RECURSIVE LoadQueue(_)
\* add_timestamps, lines 206-208: spawn_queue.put(timestamp) for each row that
\* keeps a valid key, in file order
LoadQueue(rows) ==
    IF rows = <<>> THEN <<>>
    \* line 189 raises: the loop is left for the handler of line 215
    ELSE IF Head(rows).timestamp = NotANumber THEN <<>>
    ELSE IF valid_keys(Head(rows).keys) # <<>>
    THEN <<Head(rows).timestamp>> \o LoadQueue(Tail(rows))
    ELSE LoadQueue(Tail(rows))

RECURSIVE LoadDict(_, _)
\* add_timestamps, line 209: timestamp_key_dict[timestamp] = valid_keys; a later
\* row with the same timestamp replaces the entry
LoadDict(rows, dict) ==
    IF rows = <<>> THEN dict
    ELSE IF Head(rows).timestamp = NotANumber THEN dict
    ELSE LET r == Head(rows)
             vk == valid_keys(r.keys)
         IN  IF vk # <<>>
             THEN LoadDict(Tail(rows),
                           [t \in (DOMAIN dict) \cup {r.timestamp} |->
                               IF t = r.timestamp THEN vk ELSE dict[t]])
             ELSE LoadDict(Tail(rows), dict)

\* a variant: the shuffle moves whole rows, timestamps included
shuffle_rows(rows, perm) == [i \in 1..Len(rows) |-> rows[perm[i]]]

\* add_timestamps, lines 180-185: df['key'] is replaced by a shuffled copy of itself;
\* perm is the draw of random.shuffle (row i receives the cell of row perm[i])
shuffle_keys(rows, perm) ==
    [i \in 1..Len(rows) |->
        [timestamp |-> rows[i].timestamp, keys |-> rows[perm[i]].keys]]

\* a variant: the CSV is loaded whatever the song entry says
add_timestamps_any_source(sess) ==
    [queue |-> LoadQueue(sess.rows), dict |-> LoadDict(sess.rows, <<>>)]

\* add_timestamps: [queue, dict] after the call. sess.source tells what the call
\* finds: "ok", or the song key unknown, no key_log_file entry, or no such file
add_timestamps(sess) ==
    IF sess.source # "ok" THEN [queue |-> <<>>, dict |-> <<>>]
    ELSE LET rows == IF sess.difficulty = "hard"
                     THEN shuffle_keys(sess.rows, sess.shuffle)
                     ELSE sess.rows
         IN  [queue |-> LoadQueue(rows), dict |-> LoadDict(rows, <<>>)]

\* ArrowSpawner.start_pattern_mode: the queue holds the drawn timestamps (sess.rows,
\* of which only the timestamps are used), the lookup is empty
start_pattern_mode(sess) ==
    [queue |-> [i \in 1..Len(sess.rows) |-> sess.rows[i].timestamp], dict |-> <<>>]

\* Game.__init__, lines 121-128: the timeline of the session
load_game_data(sess) ==
    IF sess.use_patterns THEN start_pattern_mode(sess) ELSE add_timestamps(sess)

\* float arithmetic: the timestamps T (ms, up to 2100) for which the double
\* T/1000 - (T - 1550)/1000 is greater than the double 1.55
RoundsAboveWindow ==
    {2019, 2023, 2027, 2031, 2035, 2039, 2043, 2047, 2051, 2055, 2059, 2063,
     2067, 2071, 2075, 2079, 2083, 2087, 2091, 2095, 2099}

\* spawn_arrow, lines 110 and 132: 0 <= item - current_time <= SPAWN_WINDOW
\* item and current_time are doubles in the code; item - current_time is exact to
\* well under a ms, except that for the timestamps below (all of them up to 2100 ms)
\* the difference of item and item - 1.55 evaluates to 1.5500000000000003
in_spawn_window(item, current_time) ==
    /\ 0 <= item - current_time
    /\ item - current_time <= SPAWN_WINDOW
    /\ ~(item - current_time = SPAWN_WINDOW /\ item \in RoundsAboveWindow)

\* the tiers PatternManager.pattern_pools has an entry for
PoolTiers == {"easy", "medium", "hard"}

\* PatternManager.pattern_pools: for each tier the lane lists and their weights, the
\* weights in hundredths (0.2 is 20)
pattern_pools(difficulty) ==
    CASE difficulty = "easy" ->
           [pool |-> << <<"d">>, <<"f">>, <<"j">>, <<"k">>, <<"f", "j">>, <<"d", "k">>,
                        <<"d", "f", "j">>, <<"d", "f", "j", "k">> >>,
            weights |-> <<20, 20, 20, 20, 8, 8, 1, 1>>]
      [] difficulty = "medium" ->
           [pool |-> << <<"d">>, <<"f">>, <<"j">>, <<"k">>, <<"d", "f">>, <<"j", "k">>,
                        <<"d", "f", "j">>, <<"f", "j", "k">>, <<"d", "f", "j", "k">> >>,
            weights |-> <<18, 18, 18, 18, 9, 9, 4, 4, 2>>]
      [] difficulty = "hard" ->
           [pool |-> << <<"d">>, <<"f">>, <<"j">>, <<"k">>, <<"d", "f">>, <<"j", "k">>,
                        <<"d", "f", "j">>, <<"f", "j", "k">>, <<"d", "f", "j", "k">>,
                        <<"d", "d", "f", "f">>, <<"j", "j", "k", "k">> >>,
            weights |-> <<12, 12, 12, 12, 10, 10, 8, 8, 6, 5, 5>>]

\* a variant: the draw is from the hard pool whatever the difficulty
pattern_pool_of_one_tier(difficulty) ==
    {pattern_pools("hard").pool[i] : i \in 1..Len(pattern_pools("hard").pool)}

\* get_weighted_pattern: the lane lists random.choices can return for `difficulty`,
\* those of the tier's pool that have a positive weight; a difficulty without an
\* entry takes the easy pool
pattern_pool(difficulty) ==
    LET p == IF difficulty \in PoolTiers THEN pattern_pools(difficulty)
             ELSE pattern_pools("easy")
    IN  {p.pool[i] : i \in {j \in 1..Len(p.pool) : p.weights[j] > 0}}

RECURSIVE spawn_tiles(_, _, _, _)
\* spawn_arrow, lines 140-156 (114-126 in pattern mode): one tile per key that has a
\* sprite, placed for the current mode and added to the group; ids number the tiles
\* in the order they are added
spawn_tiles(keys, first_id, gravity, sprites) ==
    IF keys = <<>> THEN {}
    ELSE IF Head(keys) \in sprites
    THEN {PlaceTile(NewTile(first_id, Head(keys)), gravity)}
           \cup spawn_tiles(Tail(keys), first_id + 1, gravity, sprites)
    ELSE spawn_tiles(Tail(keys), first_id, gravity, sprites)

(***************************************************************************)
(* Game (game.py): the state of one session                                *)
(***************************************************************************)
VARIABLES
    session,              \* the constructor's arguments and what it found on disk
    ticks,                \* pygame.time.get_ticks() and time.time(), in ms
    pc,                   \* position in one iteration of Game.run
    start_ticks, pause_time, paused,
    show_results, waiting_for_results, song_end_time, final_score,
    music_started, music_busy, video_active,
    gravity_mode, next_gravity_switch, show_countdown, countdown_start,
    arrow_group, outline_group,
    spawn_queue, timestamp_key_dict, spawning_allowed,
    hit_detector, last_key_press_time,
    last_judged,          \* history: per key, when a press on it was last judged
    dropped_since,        \* history: the keys with a press dropped since their last judged one
    next_id,              \* history: the id of the next tile to be created
    ledger,               \* history: per tile, how often it was hit and missed
    spawn_log,            \* history: per consumed event, when and what it spawned
    overdue,              \* history: events a spawn_arrow call left unspawned in-window
    frames,               \* history: the clock ticks (frames) so far
    last,                 \* history: what the step just taken did
    sounds,               \* AudioManager.sounds: per cue name, whether its file loaded
    sound_queue,          \* AudioManager.sound_queue
    running,              \* AudioManager.running
    sound_thread,         \* the worker thread: its position and the cue it holds
    requested,            \* history: the cues put on the queue so far
    played                \* history: the cues whose play() returned, in order

gameVars == <<start_ticks, pause_time, paused, show_results, waiting_for_results,
              song_end_time, final_score, music_started, music_busy, video_active>>
gravityVars == <<gravity_mode, next_gravity_switch, show_countdown, countdown_start,
                 outline_group>>
spawnVars == <<spawn_queue, timestamp_key_dict, spawning_allowed, next_id,
               spawn_log, overdue>>
hitVars == <<hit_detector, last_key_press_time>>
audioVars == <<sounds, sound_queue, running, sound_thread, requested, played>>
vars == <<session, ticks, pc, gameVars, gravityVars, spawnVars, hitVars,
          arrow_group, ledger, last_judged, dropped_since, frames, last, audioVars>>

\* what a step that did nothing of note records
NoStep ==
    [op |-> "none", key |-> "", judgment |-> "", base |-> 0, hit |-> {},
     swept |-> {}, silent |-> {}, cleared |-> {}, spawned |-> {},
     flipped |-> FALSE, cd_started |-> FALSE, ended |-> FALSE, at |-> 0,
     gap |-> -1, after_drop |-> FALSE, dist |-> -1, gated |-> FALSE,
     paused_for |-> -1]

\* history: for a press on `key` at current_time, the ms since the last judged press
\* on that key (-1 when there was none)
SinceJudged(key, current_time) ==
    IF key \in DOMAIN last_judged THEN current_time - last_judged[key] ELSE -1

\* history: the arrow check_hit would consider for `key`, as a set (empty when the
\* lane has no arrow or no outline)
Candidate(key) ==
    IF possible_hits(key, arrow_group) = {} \/ key \notin DOMAIN outline_group THEN {}
    ELSE {closest_arrow(key, arrow_group, outline_group[key])}

Ids(group) == {a.id : a \in group}

\* a variant: the mode controller runs whatever the difficulty
EveryTier(difficulty) == TRUE

\* Game.__init__, lines 130-139, and schedule_next_gravity_switch: the mode
\* controller runs for these tiers only
GravityTier(difficulty) == difficulty = "medium" \/ difficulty = "hard"

\* a variant: the next deadline counted from the start of the countdown
schedule_from_countdown_start(current_time, duration) ==
    current_time + duration - countdown_duration

\* Game.schedule_next_gravity_switch: current_time + duration * 1000
schedule_next_gravity_switch(current_time, duration) == current_time + duration

\* a variant: the mode switches at the deadline, without a countdown
check_gravity_switch_at_deadline(g, difficulty, current_time, duration) ==
    IF ~GravityTier(difficulty) THEN g
    ELSE IF current_time >= g.next_gravity_switch
    THEN [g EXCEPT !.gravity_mode = ~g.gravity_mode,
                   !.next_gravity_switch = current_time + duration]
    ELSE g

\* Game.check_gravity_switch, as [gravity_mode, show_countdown, countdown_start,
\* next_gravity_switch] after the call
check_gravity_switch(g, difficulty, current_time, duration) ==
    IF ~GravityTier(difficulty) THEN g
    ELSE IF g.show_countdown
    THEN IF current_time - g.countdown_start >= countdown_duration
         THEN [g EXCEPT !.gravity_mode = ~g.gravity_mode,
                        !.next_gravity_switch =
                            schedule_next_gravity_switch(current_time, duration),
                        !.show_countdown = FALSE]
         ELSE g
    ELSE IF current_time >= g.next_gravity_switch
    THEN [g EXCEPT !.show_countdown = TRUE, !.countdown_start = current_time]
    ELSE g

GravityState ==
    [gravity_mode |-> gravity_mode, show_countdown |-> show_countdown,
     countdown_start |-> countdown_start, next_gravity_switch |-> next_gravity_switch]

\* a variant: the outlines stay where they are
keep_outline_positions(outlines, gravity) == outlines

\* OutlineManager.update_outline_positions: every outline of the group
update_outline_positions(outlines, gravity) ==
    [k \in DOMAIN outlines |-> OutlineY(gravity)]

\* a variant: the test of the forward direction in both directions
passed_hit_zone_forward(a, outlines, gravity) ==
    /\ a.key \in DOMAIN outlines
    /\ a.y > outlines[a.key] + IMAGE_HEIGHT

\* a variant: the sweep takes an arrow as soon as it is beyond the outline's top edge
\* in the direction of travel
passed_hit_zone_edge(a, outlines, gravity) ==
    /\ a.key \in DOMAIN outlines
    /\ IF gravity THEN a.y < outlines[a.key] ELSE a.y > outlines[a.key]

\* a variant: no sweep while the arrows go up
passed_hit_zone_going_down(a, outlines, gravity) ==
    /\ a.key \in DOMAIN outlines
    /\ ~gravity
    /\ a.y > outlines[a.key] + IMAGE_HEIGHT

\* Game.update, lines 239-249: the arrow has passed its lane's hit zone
passed_hit_zone(a, outlines, gravity) ==
    /\ a.key \in DOMAIN outlines
    /\ IF gravity THEN a.y + IMAGE_HEIGHT < outlines[a.key]
       ELSE a.y > outlines[a.key] + IMAGE_HEIGHT

(***************************************************************************)
(* AudioManager: play_sound puts the cue on an unbounded queue.Queue; a    *)
(* daemon thread takes the cues off it and plays them. A cue on the queue  *)
(* carries the number of its request.                                      *)
(***************************************************************************)
\* AudioManager.__init__, lines 20-24: the keys of self.sounds
SoundNames == {"perfect", "good", "miss"}

\* a variant: the cue is put in front of the cues already waiting
play_sound_in_front(queue, loaded, sound_name, n) ==
    IF sound_name \in DOMAIN loaded
    THEN <<[name |-> sound_name, n |-> n]>> \o queue
    ELSE queue

\* AudioManager.play_sound: the queue after the call that is request number n
play_sound(queue, loaded, sound_name, n) ==
    IF sound_name \in DOMAIN loaded
    THEN Append(queue, [name |-> sound_name, n |-> n])
    ELSE queue

\* check_hit, lines 152-156: the sound passed to _handle_hit with each judgment
hit_sound(hit_type) == IF hit_type = "Perfect" THEN "perfect" ELSE "good"

RECURSIVE play_misses(_, _, _, _)
\* check_miss for `count` arrows: each _handle_miss calls play_sound('miss')
play_misses(queue, loaded, n, count) ==
    IF count = 0 THEN queue
    ELSE play_misses(play_sound(queue, loaded, "miss", n), loaded, n + 1, count - 1)

NoCue == [name |-> "", n |-> 0]

\* AudioManager.__init__, lines 13 and 32-35: an empty queue and the worker started
AudioManagerInit(loaded) ==
    /\ sounds = loaded
    /\ sound_queue = <<>>
    /\ running = TRUE
    /\ sound_thread = [pc |-> "while", cue |-> NoCue]
    /\ requested = 0
    /\ played = <<>>

\* _process_sound_queue, line 50: `while self.running`
SoundThreadTest ==
    /\ sound_thread.pc = "while"
    /\ sound_thread' = [sound_thread EXCEPT !.pc = IF running THEN "get" ELSE "exited"]
    /\ last' = [NoStep EXCEPT !.op = "sound_thread", !.at = ticks,
                              !.judgment = IF running THEN "loops" ELSE "exits"]
    /\ UNCHANGED <<session, ticks, pc, gameVars, gravityVars, spawnVars, hitVars,
                   arrow_group, ledger, last_judged, dropped_since, frames,
                   sounds, sound_queue, running, requested, played>>

\* line 52: sound_queue.get(timeout=0.1) returns the oldest cue, or raises Empty
\* after the timeout, which the bare except turns into the next iteration
SoundThreadGet ==
    /\ sound_thread.pc = "get"
    /\ IF sound_queue # <<>>
       THEN /\ sound_thread' = [pc |-> "play", cue |-> Head(sound_queue)]
            /\ sound_queue' = Tail(sound_queue)
            /\ last' = [NoStep EXCEPT !.op = "sound_thread", !.at = ticks,
                                      !.judgment = "got"]
       ELSE /\ sound_thread' = [pc |-> "while", cue |-> NoCue]
            /\ sound_queue' = sound_queue
            /\ last' = [NoStep EXCEPT !.op = "sound_thread", !.at = ticks,
                                      !.judgment = "timeout"]
    /\ UNCHANGED <<session, ticks, pc, gameVars, gravityVars, spawnVars, hitVars,
                   arrow_group, ledger, last_judged, dropped_since, frames,
                   sounds, running, requested, played>>

\* lines 53-56: the cue is played when its Sound loaded; an exception of play() is
\* swallowed by the bare except and the loop continues
SoundThreadPlay(raises) ==
    /\ sound_thread.pc = "play"
    /\ LET cue == sound_thread.cue
           loaded == cue.name \in DOMAIN sounds /\ sounds[cue.name]
           outcome == IF ~loaded THEN "skipped"
                      ELSE IF raises THEN "raised" ELSE "played"
       IN  /\ played' = IF outcome = "played" THEN Append(played, cue.n) ELSE played
           /\ last' = [NoStep EXCEPT !.op = "sound_thread", !.at = ticks,
                                     !.judgment = outcome]
    /\ sound_thread' = [pc |-> "while", cue |-> NoCue]
    /\ UNCHANGED <<session, ticks, pc, gameVars, gravityVars, spawnVars, hitVars,
                   arrow_group, ledger, last_judged, dropped_since, frames,
                   sounds, sound_queue, running, requested>>

\* AudioManager.cleanup, line 85: the worker is told to stop
AudioCleanup ==
    /\ running
    /\ running' = FALSE
    /\ last' = [NoStep EXCEPT !.op = "audio_cleanup", !.at = ticks]
    /\ UNCHANGED <<session, ticks, pc, gameVars, gravityVars, spawnVars, hitVars,
                   arrow_group, ledger, last_judged, dropped_since, frames,
                   sounds, sound_queue, sound_thread, requested, played>>

(***************************************************************************)
(* Game.run: one iteration is the event batch (handle_events), then        *)
(* update(), then draw and clock.tick. pc = "events" while the batch is    *)
(* being dispatched, "update" once handle_events has returned early.       *)
(***************************************************************************)
\* Game.run, lines 611-627: neither the results branch nor the pause branch is taken
RunsGameBranch ==
    /\ ~(session.mode = "normal" /\ show_results)
    /\ ~paused

\* handle_events, lines 154-162, and HitDetector.check_hit with _handle_hit /
\* _handle_miss: one KEYDOWN event of a lane key
KeyDown(key) ==
    /\ pc = "events"
    /\ RunsGameBranch
    /\ ~paused /\ ~show_results
    /\ IF in_cooldown(key, last_key_press_time, ticks)
       THEN /\ last' = [NoStep EXCEPT !.op = "check_hit", !.key = key,
                                      !.judgment = "dropped", !.at = ticks,
                                      !.gap = SinceJudged(key, ticks)]
            /\ dropped_since' = dropped_since \cup {key}
            /\ UNCHANGED <<hit_detector, last_key_press_time, last_judged,
                           arrow_group, ledger, sound_queue, requested>>
       ELSE LET o == judge(key, arrow_group, outline_group)
                \* lines 186 and 207
                cue == IF o.hit_type = "Miss" THEN "miss" ELSE hit_sound(o.hit_type)
            IN  /\ sound_queue' = play_sound(sound_queue, sounds, cue, requested + 1)
                /\ requested' = requested + 1
                /\ last_key_press_time' =
                       record_press(key, last_key_press_time, ticks)
                /\ last_judged' =
                       [k \in (DOMAIN last_judged) \cup {key} |->
                           IF k = key THEN ticks ELSE last_judged[k]]
                /\ hit_detector' =
                       IF o.hit_type = "Miss" THEN handle_miss(hit_detector)
                       ELSE handle_hit(hit_detector, o.hit_type, o.base)
                /\ arrow_group' = arrow_group \ o.removed
                /\ ledger' = [id \in DOMAIN ledger |->
                                 IF id \in Ids(o.removed \cap arrow_group)
                                 THEN [ledger[id] EXCEPT !.hit = @ + 1]
                                 ELSE ledger[id]]
                /\ last' = [NoStep EXCEPT
                              !.op = "check_hit", !.key = key,
                              !.judgment = o.hit_type, !.base = o.base,
                              !.hit = Ids(o.removed), !.at = ticks,
                              !.gap = SinceJudged(key, ticks),
                              !.after_drop = key \in dropped_since,
                              !.dist = IF Candidate(key) = {} THEN -1
                                       ELSE LET a == CHOOSE c \in Candidate(key) : TRUE
                                            IN  center_dist(a, outline_group[key]),
                              !.gated = \E a \in Candidate(key) :
                                           /\ horizontal_overlap(a, key)
                                           /\ vertical_overlap(a, outline_group[key]) > 0]
                /\ dropped_since' = dropped_since \ {key}
    /\ UNCHANGED <<session, ticks, pc, gameVars, gravityVars, spawnVars, frames,
                   sounds, running, sound_thread, played>>

\* handle_events, lines 148-153, with pause_game: the escape key pauses, and the
\* rest of the batch is dropped (return)
EscKey ==
    /\ pc = "events"
    /\ RunsGameBranch
    /\ ~paused /\ ~show_results
    /\ paused' = TRUE
    /\ pause_time' = ticks - start_ticks
    /\ pc' = "update"
    /\ last' = [NoStep EXCEPT !.op = "pause_game", !.at = ticks]
    /\ UNCHANGED <<session, ticks, start_ticks, show_results, waiting_for_results,
                   song_end_time, final_score, music_started, music_busy,
                   video_active, gravityVars, spawnVars, hitVars, arrow_group,
                   ledger, last_judged, dropped_since, frames, audioVars>>

\* Game.run, lines 619-625, with no click on RESUME: the pause popup is drawn and
\* the clock ticks
PausedFrame(dt) ==
    /\ pc = "events"
    /\ ~(session.mode = "normal" /\ show_results)
    /\ paused
    /\ ticks' = ticks + dt
    /\ frames' = frames + 1
    /\ last' = [NoStep EXCEPT !.op = "paused_frame", !.at = ticks]
    /\ UNCHANGED <<session, pc, gameVars, gravityVars, spawnVars, hitVars,
                   arrow_group, ledger, last_judged, dropped_since, audioVars>>

\* a variant: resume_game restarts the session clock at the moment of the resume
restart_clock(current_time, elapsed_at_pause) == current_time

\* resume_game, line 495: start_ticks = get_ticks() - pause_time
resume_start_ticks(current_time, elapsed_at_pause) == current_time - elapsed_at_pause

\* handle_pause_popup_events on RESUME, with resume_game, then the clock ticks
ResumeClick(dt) ==
    /\ pc = "events"
    /\ ~(session.mode = "normal" /\ show_results)
    /\ paused
    /\ paused' = FALSE
    /\ start_ticks' = resume_start_ticks(ticks, pause_time)
    /\ ticks' = ticks + dt
    /\ frames' = frames + 1
    /\ last' = [NoStep EXCEPT !.op = "resume_game", !.at = ticks,
                              !.paused_for = ticks - (start_ticks + pause_time)]
    /\ UNCHANGED <<session, pc, pause_time, show_results, waiting_for_results,
                   song_end_time, final_score, music_started, music_busy,
                   video_active, gravityVars, spawnVars, hitVars, arrow_group,
                   ledger, last_judged, dropped_since, audioVars>>

\* pygame.mixer.music: the track plays to its end
MusicEnds ==
    /\ pc = "events"
    /\ RunsGameBranch
    /\ music_started /\ music_busy
    /\ music_busy' = FALSE
    /\ last' = [NoStep EXCEPT !.op = "music_ends", !.at = ticks]
    /\ UNCHANGED <<session, ticks, pc, start_ticks, pause_time, paused,
                   show_results, waiting_for_results, song_end_time, final_score,
                   music_started, video_active, gravityVars, spawnVars, hitVars,
                   arrow_group, ledger, last_judged, dropped_since,
                   frames, audioVars>>

\* a variant: the third trigger is not restricted to sessions without music or video
all_arrows_processed_any_session(music_path, background_video, arrows, queue) ==
    arrows = {} /\ queue = <<>>

\* update, lines 221-222: the third end-of-session trigger
all_arrows_processed(music_path, background_video, arrows, queue) ==
    /\ ~music_path \/ ~background_video
    /\ arrows = {} /\ queue = <<>>

(***************************************************************************)
(* Game.update, followed by draw and clock.tick(FPS), which lets dt ms     *)
(* pass. Inputs: dt; duration, the random.uniform draw of a reschedule;    *)
(* eof, whether the video decoder reports the end of the file in this      *)
(* frame; pattern, the random.choices draw of a pattern-mode spawn.        *)
(***************************************************************************)
\* the keys spawn_arrow creates tiles for once it has taken `timestamp` off the
\* queue: the weighted pattern in pattern mode, timestamp_key_dict.get(timestamp, [])
\* otherwise
spawn_keys(timestamp, pattern) ==
    IF session.use_patterns THEN pattern
    ELSE IF timestamp \in DOMAIN timestamp_key_dict
    THEN timestamp_key_dict[timestamp]
    ELSE <<>>

\* a variant: the head of the queue is taken whatever its timestamp
spawn_due_unwindowed(allowed, queue, current_time) ==
    /\ allowed
    /\ queue # <<>>

\* spawn_arrow, lines 103-110 / 130-132: the head of the queue is taken in this call
spawn_due(allowed, queue, current_time) ==
    /\ allowed
    /\ queue # <<>>
    /\ in_spawn_window(Head(queue), current_time)

\* the positions (1-based, in the loaded queue) of the events still queued whose
\* window contains current_time
QueuedInWindow(queue, current_time, consumed) ==
    {consumed + i : i \in {j \in 1..Len(queue) :
                              /\ queue[j] - SPAWN_WINDOW <= current_time
                              /\ current_time <= queue[j]}}

Update(dt, duration, eof, pattern) ==
    /\ pc \in {"events", "update"}
    /\ pc = "events" => ~paused
    \* Game.run, lines 611 and 629: the results branch is not taken and update() runs
    /\ ~show_results
    /\ LET elapsed == ticks - start_ticks
           \* lines 169-174
           start_music == elapsed >= MUSIC_START_DELAY /\ ~music_started
           started1 == music_started \/ start_music
           \* play_music swallows a failed load: the mixer then plays nothing
           busy1 == IF start_music
                    THEN session.music_path /\ session.music_loads
                    ELSE music_busy
           \* lines 181-182
           video_updates == /\ ~paused /\ ~show_results
                            /\ session.background_video /\ video_active
           \* the video plays from VIDEO_START_DELAY on (lines 177-178)
           active1 == IF video_updates /\ eof /\ elapsed >= VIDEO_START_DELAY
                      THEN FALSE ELSE video_active
           \* line 185
           g == check_gravity_switch(GravityState, session.difficulty, ticks, duration)
           flipped == g.gravity_mode # gravity_mode
           outlines1 == IF flipped
                        THEN update_outline_positions(outline_group, g.gravity_mode)
                        ELSE outline_group
           \* lines 200-231: the three end-of-session triggers
           music_over == started1 /\ ~busy1 /\ ~waiting_for_results /\ ~paused
           video_over == /\ session.background_video /\ ~active1
                         /\ ~waiting_for_results /\ ~paused
           all_done == /\ all_arrows_processed(session.music_path, session.background_video,
                                                arrow_group, spawn_queue)
                       /\ ~waiting_for_results /\ ~paused
           ends == /\ session.mode = "normal"
                   /\ (music_over \/ video_over \/ all_done)
           \* lines 234-249
           moved == {TileUpdate(a, g.gravity_mode) : a \in arrow_group}
           swept == {a \in moved : passed_hit_zone(a, outlines1, g.gravity_mode)}
           silent == {a \in moved : TileKilled(a)} \ swept
           \* line 252
           due == spawn_due(spawning_allowed, spawn_queue, elapsed)
           tiles == IF due
                    THEN spawn_tiles(spawn_keys(Head(spawn_queue), pattern), next_id,
                                     g.gravity_mode, session.sprites)
                    ELSE {}
           consumed == Len(spawn_log)
           step == [NoStep EXCEPT !.op = "update", !.at = ticks,
                                  !.flipped = flipped,
                                  !.cd_started = g.show_countdown /\ ~show_countdown]
       IN  /\ music_started' = started1
           /\ music_busy' = busy1
           /\ video_active' = active1
           /\ gravity_mode' = g.gravity_mode
           /\ show_countdown' = g.show_countdown
           /\ countdown_start' = g.countdown_start
           /\ next_gravity_switch' = g.next_gravity_switch
           /\ outline_group' = outlines1
           /\ IF waiting_for_results
              THEN \* lines 192-197
                   /\ show_results' = (ticks - song_end_time >= RESULTS_DELAY)
                   /\ waiting_for_results' = ~(ticks - song_end_time >= RESULTS_DELAY)
                   /\ last' = step
                   /\ UNCHANGED <<song_end_time, final_score, arrow_group,
                                  spawning_allowed, spawn_queue, next_id, spawn_log,
                                  overdue, hit_detector, ledger, sound_queue,
                                  requested>>
              ELSE IF ends
              THEN /\ final_score' = hit_detector.score
                   /\ song_end_time' = ticks
                   /\ waiting_for_results' = TRUE
                   /\ arrow_group' = {}
                   /\ spawning_allowed' = FALSE
                   /\ last' = [step EXCEPT !.ended = TRUE, !.cleared = Ids(arrow_group)]
                   /\ UNCHANGED <<show_results, spawn_queue, next_id, spawn_log,
                                  overdue, hit_detector, ledger, sound_queue,
                                  requested>>
              ELSE /\ hit_detector' = check_miss_times(hit_detector, Cardinality(swept))
                   /\ sound_queue' = play_misses(sound_queue, sounds, requested + 1,
                                                 Cardinality(swept))
                   /\ requested' = requested + Cardinality(swept)
                   /\ arrow_group' = ((moved \ swept) \ silent) \cup tiles
                   /\ ledger' = [id \in (DOMAIN ledger) \cup Ids(tiles) |->
                                    IF id \in Ids(tiles) THEN [hit |-> 0, miss |-> 0]
                                    ELSE IF id \in Ids(swept)
                                    THEN [ledger[id] EXCEPT !.miss = @ + 1]
                                    ELSE ledger[id]]
                   /\ spawn_queue' = IF due THEN Tail(spawn_queue) ELSE spawn_queue
                   \* line 113: the pattern is drawn when the timestamp is consumed
                   /\ (due /\ session.use_patterns) =>
                          pattern \in pattern_pool(session.difficulty)
                   /\ next_id' = next_id + Cardinality(tiles)
                   /\ spawn_log' =
                          IF due
                          THEN Append(spawn_log,
                                      [timestamp |-> Head(spawn_queue), at |-> elapsed,
                                       keys |-> spawn_keys(Head(spawn_queue), pattern),
                                       ids |-> Ids(tiles)])
                          ELSE spawn_log
                   /\ overdue' =
                          IF spawning_allowed
                          THEN overdue \cup
                                 (QueuedInWindow(spawn_queue, elapsed, consumed)
                                    \ (IF due THEN {consumed + 1} ELSE {}))
                          ELSE overdue
                   /\ last' = [step EXCEPT !.swept = Ids(swept), !.silent = Ids(silent),
                                           !.spawned = Ids(tiles)]
                   /\ UNCHANGED <<show_results, waiting_for_results, song_end_time,
                                  final_score, spawning_allowed>>
    /\ ticks' = ticks + dt
    /\ frames' = frames + 1
    /\ pc' = "events"
    /\ UNCHANGED <<session, start_ticks, pause_time, paused, timestamp_key_dict,
                   last_key_press_time, last_judged, dropped_since,
                   sounds, running, sound_thread, played>>

(***************************************************************************)
(* States a session can be in at the start of a frame. A session is the    *)
(* constructor's arguments with what the constructor found on disk; a      *)
(* snapshot is a point of a run of that session: the state right after     *)
(* Game.__init__ (Fresh), or a later one. History variables record what    *)
(* happened since the snapshot.                                            *)
(***************************************************************************)
\* the value of pygame.time.get_ticks() at the snapshot: the menus ran before the game
SnapshotTicks == 100000

\* the detector after a run of n consecutive Perfect hits from a fresh one: each
\* hit past the 100th, 200th and 300th of the run scored one more SCORE_PERFECT
Streak(n) ==
    [score |-> SCORE_PERFECT * (n + Max(0, n - 100) + Max(0, n - 200) + Max(0, n - 300)),
     combo |-> n, max_combo |-> n, misses |-> 0,
     hit_type |-> IF n = 0 THEN "" ELSE "Perfect"]

Song(difficulty, rows) ==
    [mode |-> "normal", difficulty |-> difficulty, use_patterns |-> FALSE,
     rows |-> rows, music_path |-> TRUE, music_loads |-> TRUE,
     background_video |-> FALSE, sprites |-> Keys,
     source |-> "ok", shuffle |-> [i \in 1..Len(rows) |-> i]]

\* an arrow whose hitbox follows its rect (every arrow that has been updated once)
Arrow(id, key, y) == [id |-> id, key |-> key, y |-> y, hy |-> HitboxYFor(y)]

\* position = "load": Game.__init__ has not reached line 121 yet (the timeline is
\* still the empty one of ArrowSpawner.__init__; what __init__ does after the load,
\* lines 130-139, does not depend on it and is already in place)
SessionState(sess, snap, position) ==
    /\ session = sess
    /\ ticks = SnapshotTicks
    /\ pc = position
    /\ start_ticks = SnapshotTicks - snap.elapsed
    /\ pause_time = 0
    /\ paused = FALSE
    /\ show_results = FALSE
    /\ waiting_for_results = (snap.waiting_since >= 0)
    /\ song_end_time = IF snap.waiting_since >= 0
                       THEN SnapshotTicks - snap.waiting_since ELSE 0
    /\ final_score = IF snap.waiting_since >= 0 THEN snap.detector.score ELSE 0
    /\ music_started = snap.music_started
    /\ music_busy = snap.music_busy
    /\ video_active = sess.background_video
    /\ gravity_mode = snap.gravity_mode
    /\ next_gravity_switch =
           IF ~GravityTier(sess.difficulty) THEN 0
           ELSE IF snap.show_countdown THEN SnapshotTicks - snap.countdown_ago
           ELSE SnapshotTicks + snap.switch_in
    /\ show_countdown = snap.show_countdown
    /\ countdown_start =
           IF snap.show_countdown THEN SnapshotTicks - snap.countdown_ago ELSE 0
    /\ arrow_group = snap.arrows
    /\ outline_group = [k \in Keys |-> OutlineY(snap.gravity_mode)]
    /\ spawn_queue = IF position = "load" THEN <<>> ELSE load_game_data(sess).queue
    /\ timestamp_key_dict =
           IF position = "load" THEN <<>> ELSE load_game_data(sess).dict
    /\ spawning_allowed = (snap.waiting_since < 0)
    /\ hit_detector = snap.detector
    /\ last_key_press_time = <<>>
    /\ last_judged = <<>>
    /\ dropped_since = {}
    /\ next_id = Cardinality(snap.arrows) + 1
    /\ ledger = [id \in Ids(snap.arrows) |-> [hit |-> 0, miss |-> 0]]
    /\ spawn_log = <<>>
    /\ overdue = {}
    /\ frames = 0
    /\ last = NoStep

\* the session with every sound file loaded and no cue waiting
InitState(sess, snap, position) ==
    /\ SessionState(sess, snap, position)
    /\ AudioManagerInit([name \in SoundNames |-> TRUE])

InitFrom(sess, snap) == InitState(sess, snap, "events")

(***************************************************************************)
(* The judgment engine: sessions of the medium tier a minute in, a second  *)
(* after a flip, with the arrows that were in flight at the flip now near  *)
(* the hit zones (after a flip an arrow can be at any distance from its    *)
(* outline: it came down in steps of 9 and goes up in steps of 10, or the  *)
(* other way round)                                                        *)
(***************************************************************************)
MaxFrames == 2

\* a frame takes 16 ms at 60 FPS (clock.tick), or longer
Steps == {16, 34}
\* the player presses "d", or the key of a lane that has an arrow
PressKeys == {"d"} \cup {a.key : a \in arrow_group}
Durations == {GRAVITY_SWITCH_MIN, GRAVITY_SWITCH_MAX}

\* rect.y of an arrow relative to its lane's outline
Offsets == {-136, -135, -101, -100, -66, -65, -21, -20, 0, 20, 21, 65, 66, 100, 101,
            135, 136}

JudgeArrows(gravity) ==
    { {Arrow(1, "d", OutlineY(gravity) + o)} : o \in Offsets }
      \cup { {Arrow(1, "d", OutlineY(gravity) + 30), Arrow(2, "d", OutlineY(gravity) - 30)},
             {Arrow(1, "d", OutlineY(gravity) + 140), Arrow(2, "d", OutlineY(gravity) - 10),
              Arrow(3, "f", OutlineY(gravity) + 60)},
             {} }

JudgeSnapshot(g, as, n) ==
    [elapsed |-> 60000, arrows |-> as, gravity_mode |-> g,
     show_countdown |-> FALSE, countdown_ago |-> 0, switch_in |-> 14000,
     detector |-> Streak(n), music_started |-> TRUE, music_busy |-> TRUE,
     waiting_since |-> -1]

JudgeSnapshots ==
    UNION { UNION { { JudgeSnapshot(g, as, n) :
                        n \in IF Cardinality(as) = 1 THEN {0} ELSE {0, 99, 199, 299} } :
                    as \in JudgeArrows(g) } :
            g \in BOOLEAN }

Next ==
    \/ \E key \in PressKeys : KeyDown(key)
    \/ EscKey
    \/ MusicEnds
    \/ \E dt \in Steps : frames < MaxFrames /\ PausedFrame(dt)
    \/ \E dt \in Steps : frames < MaxFrames /\ ResumeClick(dt)
    \/ \E dt \in Steps, duration \in Durations, eof \in {FALSE}, pattern \in {<<>>} :
          frames < MaxFrames /\ Update(dt, duration, eof, pattern)

InitJudge == \E snap \in JudgeSnapshots : InitFrom(Song("medium", <<>>), snap)

SpecJudge == InitJudge /\ [][Next]_vars

(***************************************************************************)
(* The spawn scheduler: sessions of the easy tier around the moment their  *)
(* first events enter the spawn window                                     *)
(***************************************************************************)
Row(timestamp, keys) == [timestamp |-> timestamp, keys |-> keys]

\* the state before any event has been consumed, `elapsed` ms into the session;
\* Early(0) is the state right after Game.__init__
Early(elapsed) ==
    [elapsed |-> elapsed, arrows |-> {}, gravity_mode |-> FALSE,
     show_countdown |-> FALSE, countdown_ago |-> 0, switch_in |-> 0,
     detector |-> NewHitDetector, music_started |-> FALSE, music_busy |-> FALSE,
     waiting_since |-> -1]

\* [rows, elapsed]: a CSV and a moment of its session at which every event is still
\* queued and none has been in the window yet
SpawnScenarios ==
    { \* two rows with one timestamp
      [rows |-> <<Row(1000, <<"d">>), Row(1000, <<"f">>)>>, elapsed |-> 0],
      \* two events whose windows open within one frame
      [rows |-> <<Row(1566, <<"d", "f">>), Row(1580, <<"j">>)>>, elapsed |-> 0],
      \* an event whose window opens exactly at a tick, for a timestamp whose
      \* difference rounds above SPAWN_WINDOW and for one whose does not
      [rows |-> <<Row(2019, <<"k">>)>>, elapsed |-> 453],
      [rows |-> <<Row(2020, <<"j", "x">>)>>, elapsed |-> 454],
      \* a row without a valid key, then a valid one
      [rows |-> <<Row(900, <<"x">>), Row(1000, <<"d", "k">>)>>, elapsed |-> 0],
      \* events a frame apart
      [rows |-> <<Row(1566, <<"d">>), Row(1600, <<"f">>), Row(1616, <<"j">>)>>,
       elapsed |-> 0],
      \* no CSV
      [rows |-> <<>>, elapsed |-> 0] }

MaxSpawnFrames == 4

NextSpawn ==
    \/ EscKey
    \/ \E dt \in Steps : frames < MaxSpawnFrames /\ PausedFrame(dt)
    \/ \E dt \in Steps : frames < MaxSpawnFrames /\ ResumeClick(dt)
    \/ \E dt \in Steps, duration \in {GRAVITY_SWITCH_MIN}, eof \in {FALSE},
          pattern \in {<<>>} :
          frames < MaxSpawnFrames /\ Update(dt, duration, eof, pattern)

InitSpawn ==
    \E sc \in SpawnScenarios : InitFrom(Song("easy", sc.rows), Early(sc.elapsed))

SpecSpawn == InitSpawn /\ [][NextSpawn]_vars

(***************************************************************************)
(* The timeline loader: sessions from the point of Game.__init__ where the  *)
(* timeline is loaded, then their first frames                             *)
(***************************************************************************)
\* Game.__init__, lines 121-128: arrow_spawner.add_timestamps(song_key)
AddTimestamps ==
    /\ pc = "load"
    /\ spawn_queue' = load_game_data(session).queue
    /\ timestamp_key_dict' = load_game_data(session).dict
    /\ pc' = "events"
    /\ last' = [NoStep EXCEPT !.op = "add_timestamps", !.at = ticks]
    /\ UNCHANGED <<session, ticks, gameVars, gravityVars, spawning_allowed, next_id,
                   spawn_log, overdue, hitVars, arrow_group, ledger, last_judged,
                   dropped_since, frames, audioVars>>

\* the state right after Game.__init__ read the clock, with the first deadline of
\* the mode controller `duration` ms ahead
Constructed(duration) ==
    [elapsed |-> 0, arrows |-> {}, gravity_mode |-> FALSE,
     show_countdown |-> FALSE, countdown_ago |-> 0, switch_in |-> duration,
     detector |-> NewHitDetector, music_started |-> FALSE, music_busy |-> FALSE,
     waiting_since |-> -1]

\* a session; an unknown song key has no music path either (lines 46-52)
Track(mode, difficulty, rows, source, shuffle, video) ==
    [mode |-> mode, difficulty |-> difficulty, use_patterns |-> FALSE,
     rows |-> rows, music_path |-> (source # "unknown_song"), music_loads |-> TRUE,
     background_video |-> video, sprites |-> Keys,
     source |-> source, shuffle |-> shuffle]

\* the outcomes of random.shuffle on a list of n cells
ShuffleOutcomes(n) ==
    {f \in [1..n -> 1..n] : \A i \in 1..n, j \in 1..n : i # j => f[i] # f[j]}

BadRow(keys) == [timestamp |-> NotANumber, keys |-> keys]

RowsWithUnknownLane ==
    <<Row(1000, <<"d">>), Row(1200, <<"x">>), Row(1400, <<"f", "j">>)>>
RowsAllKnown == <<Row(1000, <<"d">>), Row(1200, <<"f", "j">>)>>
RowsMixed == <<Row(1000, <<"d", "x", "k">>), Row(1100, <<"q">>), Row(1200, <<"f">>)>>
RowsMalformedSecond == <<Row(1000, <<"d">>), BadRow(<<"f">>), Row(1400, <<"k">>)>>
RowsMalformedFirst == <<BadRow(<<"f">>), Row(1000, <<"d">>)>>
RowsSameTimestamp == <<Row(1000, <<"d", "x">>), Row(1000, <<"f">>), Row(1300, <<"j">>)>>
\* a key log whose rows are not in order of time
RowsUnsorted == <<Row(1400, <<"d">>), Row(1000, <<"f">>)>>

LoadSessions ==
    { Track("normal", "hard", RowsWithUnknownLane, "ok", f, FALSE) :
        f \in ShuffleOutcomes(Len(RowsWithUnknownLane)) }
      \cup { Track("normal", "hard", RowsAllKnown, "ok", f, FALSE) :
               f \in ShuffleOutcomes(Len(RowsAllKnown)) }
      \cup { Song("easy", rows) :
               rows \in {RowsMixed, RowsMalformedSecond, RowsMalformedFirst,
                        RowsSameTimestamp, RowsUnsorted} }
      \cup { Track(mode, "easy", RowsAllKnown, source, [i \in 1..2 |-> i], mode = "normal") :
               mode \in {"normal", "endless"},
               source \in {"unknown_song", "no_key_log", "file_not_found"} }

NextLoad ==
    \/ AddTimestamps
    \/ EscKey
    \/ \E dt \in Steps : frames < MaxSpawnFrames /\ PausedFrame(dt)
    \/ \E dt \in Steps : frames < MaxSpawnFrames /\ ResumeClick(dt)
    \/ \E dt \in Steps, duration \in {GRAVITY_SWITCH_MIN}, eof \in {FALSE},
          pattern \in {<<>>} :
          frames < MaxSpawnFrames /\ Update(dt, duration, eof, pattern)

InitLoad ==
    \E sess \in LoadSessions : InitState(sess, Constructed(GRAVITY_SWITCH_MIN), "load")

SpecLoad == InitLoad /\ [][NextLoad]_vars

(***************************************************************************)
(* The end of a session: sessions with and without music and video, around *)
(* the start of the music and shortly before the results popup             *)
(***************************************************************************)
MaxEndFrames == 3

Stage(mode, music_path, music_loads, video, rows) ==
    [mode |-> mode, difficulty |-> "easy", use_patterns |-> FALSE,
     rows |-> rows, music_path |-> music_path, music_loads |-> music_loads,
     background_video |-> video, sprites |-> Keys,
     source |-> "ok", shuffle |-> [i \in 1..Len(rows) |-> i]]

\* rows are the rows of the file not yet consumed
EndSessions ==
    { Stage(mode, music, loads, video, rows) :
        mode \in {"normal", "endless"}, music \in BOOLEAN, loads \in BOOLEAN,
        video \in BOOLEAN, rows \in {<<>>, <<Row(9000, <<"f">>)>>} }
      \* the menu's endless entry passes "endless" as the difficulty
      \cup { [Stage("normal", TRUE, TRUE, TRUE, <<Row(9000, <<"f">>)>>)
                 EXCEPT !.difficulty = "endless"] }

EndSnapshot(elapsed, arrows, started, busy, waiting_since) ==
    [elapsed |-> elapsed, arrows |-> arrows, gravity_mode |-> FALSE,
     show_countdown |-> FALSE, countdown_ago |-> 0, switch_in |-> 0,
     detector |-> NewHitDetector, music_started |-> started, music_busy |-> busy,
     waiting_since |-> waiting_since]

\* the moments of a session of sess: its construction; one frame before the music
\* starts; with the music playing (in endless mode also with music that failed to
\* start); 960 and 990 ms after the third trigger ended it
EndSnapshots(sess) ==
    LET idle_ends == /\ sess.mode = "normal"
                     /\ all_arrows_processed(sess.music_path, sess.background_video,
                                             {}, sess.rows)
        in_flight == {{Arrow(1, "d", 396)}} \cup (IF idle_ends THEN {} ELSE {{}})
        plays == sess.music_path /\ sess.music_loads
    IN  {EndSnapshot(0, {}, FALSE, FALSE, -1)}
          \cup {EndSnapshot(4984, as, FALSE, FALSE, -1) : as \in in_flight}
          \cup (IF plays
                THEN {EndSnapshot(20000, as, TRUE, TRUE, -1) : as \in in_flight}
                ELSE IF sess.mode = "endless"
                THEN {EndSnapshot(20000, as, TRUE, FALSE, -1) : as \in in_flight}
                ELSE {})
          \cup (IF idle_ends
                THEN {EndSnapshot(3000, {}, FALSE, FALSE, w) : w \in {960, 990}}
                ELSE {})

NextEnd ==
    \/ EscKey
    \/ MusicEnds
    \/ \E dt \in Steps : frames < MaxEndFrames /\ PausedFrame(dt)
    \/ \E dt \in Steps : frames < MaxEndFrames /\ ResumeClick(dt)
    \/ \E dt \in Steps, duration \in {GRAVITY_SWITCH_MIN}, eof \in BOOLEAN,
          pattern \in {<<>>} :
          frames < MaxEndFrames /\ Update(dt, duration, eof, pattern)

InitEnd ==
    \E sess \in EndSessions : \E snap \in EndSnapshots(sess) :
        InitState(sess, snap, "events")

SpecEnd == InitEnd /\ [][NextEnd]_vars

(***************************************************************************)
(* The end of a session with the player at the keys: normal-mode sessions  *)
(* 20 s in with points scored, a note on its hit zone and an event in the  *)
(* spawn window, and the same sessions shortly before the results popup    *)
(***************************************************************************)
MaxFinalFrames == 3

\* with music and video, with music only, and without music (the session ends once
\* nothing is left)
FinalSessions ==
    { Stage("normal", TRUE, TRUE, TRUE, <<Row(21000, <<"f">>)>>),
      Stage("normal", TRUE, TRUE, FALSE, <<Row(21000, <<"f">>)>>),
      Stage("normal", FALSE, FALSE, FALSE, <<>>) }

FinalSnapshots(sess) ==
    { [EndSnapshot(20000, {Arrow(1, "d", 747)}, TRUE, sess.music_path, -1)
           EXCEPT !.detector = Streak(3)] }
      \cup { [EndSnapshot(20000, {}, TRUE, FALSE, w) EXCEPT !.detector = Streak(3)] :
             w \in {960, 990} }

NextFinal ==
    \/ \E key \in PressKeys : KeyDown(key)
    \/ EscKey
    \/ MusicEnds
    \/ \E dt \in Steps : frames < MaxFinalFrames /\ PausedFrame(dt)
    \/ \E dt \in Steps : frames < MaxFinalFrames /\ ResumeClick(dt)
    \/ \E dt \in Steps, eof \in BOOLEAN :
          frames < MaxFinalFrames /\ Update(dt, GRAVITY_SWITCH_MIN, eof, <<>>)

InitFinal ==
    \E sess \in FinalSessions : \E snap \in FinalSnapshots(sess) :
        InitState(sess, snap, "events")

SpecFinal == InitFinal /\ [][NextFinal]_vars

(***************************************************************************)
(* Two lanes pressed in one tick: easy sessions 60 s in, with notes on the *)
(* hit zones of lanes d and f or of lane d only, at the start of a combo   *)
(* and one hit below the first multiplier tier                             *)
(***************************************************************************)
MaxChordFrames == 1

ChordArrows ==
    { {Arrow(1, "d", 747), Arrow(2, "f", 720)},
      {Arrow(1, "d", 747), Arrow(2, "f", 747)},
      {Arrow(1, "d", 747)} }

ChordSnapshots ==
    { [EndSnapshot(60000, as, TRUE, TRUE, -1) EXCEPT !.detector = Streak(n)] :
        as \in ChordArrows, n \in {0, 5, 99} }

NextChord ==
    \/ \E key \in {"d", "f"} : KeyDown(key)
    \/ \E dt \in Steps :
          frames < MaxChordFrames /\ Update(dt, GRAVITY_SWITCH_MIN, FALSE, <<>>)

InitChord == \E snap \in ChordSnapshots : InitFrom(Song("easy", <<>>), snap)

SpecChord == InitChord /\ [][NextChord]_vars

(***************************************************************************)
(* The mode controller: sessions of the medium tier a minute in, shortly   *)
(* before a deadline or shortly before the end of a countdown              *)
(***************************************************************************)
\* positions an arrow reaches without a flip since it spawned: multiples of 9 below
\* the top edge going down, 850 less a multiple of 10 (then of 9 above the top edge)
\* going up
GravityArrows(gravity) ==
    IF gravity
    THEN { {}, {Arrow(1, "d", 400)}, {Arrow(1, "d", 20), Arrow(2, "f", -144)} }
    ELSE { {}, {Arrow(1, "d", 396)}, {Arrow(1, "d", 765), Arrow(2, "f", 891)} }

GravitySnapshot(g, as, counting, ms) ==
    [elapsed |-> 60000, arrows |-> as, gravity_mode |-> g,
     show_countdown |-> counting, countdown_ago |-> ms, switch_in |-> ms,
     detector |-> NewHitDetector, music_started |-> TRUE, music_busy |-> TRUE,
     waiting_since |-> -1]

GravitySnapshots ==
    UNION { { GravitySnapshot(g, as, FALSE, ms) : as \in GravityArrows(g),
                                                  ms \in {0, 16, 20, 50} }
              \cup { GravitySnapshot(g, as, TRUE, ms) : as \in GravityArrows(g),
                                                        ms \in {4950, 4966, 4984, 5000} } :
            g \in BOOLEAN }

InitGravity == \E snap \in GravitySnapshots : InitFrom(Song("medium", <<>>), snap)

SpecGravity == InitGravity /\ [][Next]_vars

(***************************************************************************)
(* The play-field: sessions a minute in whose next event is in the spawn   *)
(* window, in both directions of travel, from a key log (medium tier) and  *)
(* in pattern mode (hard tier, endless, no music)                          *)
(***************************************************************************)
MaxFieldFrames == 2

FieldRows ==
    { <<Row(61000, <<"d", "f">>), Row(61200, <<"d">>)>>,
      <<Row(61000, <<"d", "d">>)>> }

\* timestamps start_pattern_mode drew (0.5 to 1.5 s apart), those still queued
PatternTimes == <<Row(61000, <<>>), Row(61900, <<>>)>>

\* song_key "pattern": start_pattern_mode(difficulty) with the difficulty the game
\* was started with
FieldSessions ==
    { Song("medium", rows) : rows \in FieldRows }
      \cup { [Song(difficulty, PatternTimes)
                 EXCEPT !.mode = "endless", !.use_patterns = TRUE, !.music_path = FALSE] :
             difficulty \in {"easy", "hard", "endless"} }

\* lane lists of the pools: one of every pool, one of the easy pool only, one of the
\* hard pool only
FieldPatterns == { <<"d">>, <<"d", "f", "j">>, <<"f", "j">>, <<"d", "d", "f", "f">> }

FieldSnapshot(sess, g, as) ==
    [elapsed |-> 60000, arrows |-> as, gravity_mode |-> g,
     show_countdown |-> FALSE, countdown_ago |-> 0, switch_in |-> 14000,
     detector |-> NewHitDetector, music_started |-> TRUE,
     music_busy |-> sess.music_path, waiting_since |-> -1]

NextField ==
    \/ \E key \in PressKeys : KeyDown(key)
    \/ EscKey
    \/ \E dt \in Steps : frames < MaxFieldFrames /\ PausedFrame(dt)
    \/ \E dt \in Steps : frames < MaxFieldFrames /\ ResumeClick(dt)
    \/ \E dt \in Steps, duration \in {GRAVITY_SWITCH_MIN}, eof \in {FALSE},
          pattern \in FieldPatterns :
          frames < MaxFieldFrames /\ Update(dt, duration, eof, pattern)

InitField ==
    \E sess \in FieldSessions :
      \E g \in (IF GravityTier(sess.difficulty) THEN BOOLEAN ELSE {FALSE}) :
        \E as \in {{}, {Arrow(1, "d", OutlineY(g) + (IF g THEN 200 ELSE -201))}} :
            InitState(sess, FieldSnapshot(sess, g, as), "events")

SpecField == InitField /\ [][NextField]_vars

(***************************************************************************)
(* The score state machine under a run of Perfect judgments                *)
(***************************************************************************)
MaxRun == 305

\* check_hit, line 152: self._handle_hit(closest_arrow, "Perfect", SCORE_PERFECT)
PerfectJudgment ==
    /\ hit_detector.combo < MaxRun
    /\ hit_detector' = handle_hit(hit_detector, "Perfect", SCORE_PERFECT)
    /\ sound_queue' = play_sound(sound_queue, sounds, hit_sound("Perfect"),
                                 requested + 1)
    /\ requested' = requested + 1
    /\ last' = [NoStep EXCEPT !.op = "handle_hit", !.judgment = "Perfect",
                              !.base = SCORE_PERFECT]
    /\ UNCHANGED <<session, ticks, pc, gameVars, gravityVars, spawnVars,
                   last_key_press_time, arrow_group, ledger, last_judged,
                   dropped_since, frames, sounds, running, sound_thread, played>>

InitPerfectRun == InitFrom(Song("easy", <<>>), Early(0))

SpecPerfectRun == InitPerfectRun /\ [][PerfectJudgment]_vars

(***************************************************************************)
(* Timelines whose rows are not in order of time: add_timestamps queues    *)
(* the rows in file order, and spawn_arrow looks at the head of the queue  *)
(***************************************************************************)
StallScenarios ==
    { \* the second row is 2 s earlier than the first
      [rows |-> <<Row(3000, <<"d">>), Row(1000, <<"f">>), Row(3100, <<"j">>)>>,
       elapsed |-> 1434],
      \* the same rows in order of time
      [rows |-> <<Row(1000, <<"f">>), Row(3000, <<"d">>), Row(3100, <<"j">>)>>,
       elapsed |-> 984] }

InitStall ==
    \E sc \in StallScenarios : InitFrom(Song("easy", sc.rows), Early(sc.elapsed))

SpecStall == InitStall /\ [][NextSpawn]_vars

(***************************************************************************)
(* Notes in flight: medium sessions a minute in with notes on the screen,  *)
(* with a direction flip a frame or two ahead or 14 s ahead, followed      *)
(* until every note had the time to cross the screen. run() calls update() *)
(* in every iteration, so the ticks are weakly fair.                       *)
(***************************************************************************)
MaxFlightFrames == 80
\* the lane key presses of the player in that time
MaxFlightPresses == 1

\* notes in mid-screen, going down or going up
FlightArrows(gravity) ==
    IF gravity
    THEN { {Arrow(1, "d", 400)}, {Arrow(1, "d", 400), Arrow(2, "f", 600)} }
    ELSE { {Arrow(1, "d", 396)}, {Arrow(1, "d", 396), Arrow(2, "f", 603)} }

FlightSnapshots ==
    UNION { { GravitySnapshot(g, as, FALSE, 14000) : as \in FlightArrows(g) }
              \cup { GravitySnapshot(g, as, TRUE, 4984) : as \in FlightArrows(g) } :
            g \in BOOLEAN }

\* a steady 60 frames per second
FlightTick ==
    \E dt \in {16} : frames < MaxFlightFrames
                       /\ Update(dt, GRAVITY_SWITCH_MIN, FALSE, <<>>)

\* the player presses a lane key while a note of the lane overlaps its hit zone
NextFlight ==
    \/ \E key \in PressKeys :
          /\ requested < MaxFlightPresses
          /\ \E a \in Candidate(key) : vertical_overlap(a, outline_group[key]) > 0
          /\ KeyDown(key)
    \/ FlightTick

InitFlight == \E snap \in FlightSnapshots : InitFrom(Song("medium", <<>>), snap)

SpecFlight == InitFlight /\ [][NextFlight]_vars /\ WF_vars(FlightTick)

(***************************************************************************)
(* The sound cues: an easy session a minute in with a note on its hit zone *)
(* and a note about to be swept, the worker thread running beside the game *)
(* loop, with sound files that loaded and sound files that did not         *)
(***************************************************************************)
MaxAudioFrames == 1

\* AudioManager._load_sound returns None for a file that does not load
LoadedSounds ==
    { [name \in SoundNames |-> TRUE],
      [name \in SoundNames |-> name # "miss"],
      [name \in SoundNames |-> FALSE] }

AudioSnapshot ==
    [elapsed |-> 60000,
     arrows |-> {Arrow(1, "f", 747), Arrow(2, "j", 900)},
     gravity_mode |-> FALSE, show_countdown |-> FALSE, countdown_ago |-> 0,
     switch_in |-> 0, detector |-> NewHitDetector, music_started |-> TRUE,
     music_busy |-> TRUE, waiting_since |-> -1]

NextAudio ==
    \/ \E key \in {"d", "f"} : KeyDown(key)
    \/ \E dt \in Steps, pattern \in {<<>>} :
          frames < MaxAudioFrames /\ Update(dt, GRAVITY_SWITCH_MIN, FALSE, pattern)
    \/ SoundThreadTest
    \/ SoundThreadGet
    \/ \E raises \in BOOLEAN : SoundThreadPlay(raises)
    \/ AudioCleanup

InitAudio ==
    \E loaded \in LoadedSounds :
        /\ SessionState(Song("easy", <<>>), AudioSnapshot, "events")
        /\ AudioManagerInit(loaded)

SpecAudio == InitAudio /\ [][NextAudio]_vars

(***************************************************************************)
(* Properties of the judgment engine                                       *)
(***************************************************************************)
\* everything but the history variables
programVars == <<session, ticks, pc, gameVars, gravityVars, spawn_queue,
                 timestamp_key_dict, spawning_allowed, hitVars, arrow_group>>

Hits == {"Perfect", "Good", "Late", "Early"}

\* C1: a press on a lane is judged exactly when no judged press on that lane
\* happened less than 50 ms before it (so presses less than 50 ms after a judged
\* one yield no judgment, presses 50 ms or more after it yield one), and a dropped
\* press changes no state of the game, the time of the last press included
C1_Debounce ==
    [][last'.op = "check_hit" =>
         LET key == last'.key
             judged == last'.judgment # "dropped"
             recent == /\ key \in DOMAIN last_judged
                       /\ ticks - last_judged[key] < 50
         IN  /\ judged <=> ~recent
             /\ ~judged => UNCHANGED programVars
             /\ judged => last_key_press_time'[key] = ticks]_vars

\* a press judged exactly 50 ms after the last judged press on its lane, with a
\* dropped press in between
C1_Witness ==
    /\ last.op = "check_hit"
    /\ last.judgment # "dropped"
    /\ last.gap = 50
    /\ last.after_drop

\* C2: a judged press whose candidate passes both overlap gates, at centre distance
\* d: Perfect (base 100) for d <= 20, Good (base 50) for 20 < d <= 65, Late or Early
\* (base 25) for 65 < d <= 100, Miss for d > 100
C2_ClassificationBoundaries ==
    (last.op = "check_hit" /\ last.judgment # "dropped" /\ last.gated) =>
        /\ last.dist <= 20 => last.judgment = "Perfect" /\ last.base = 100
        /\ (20 < last.dist /\ last.dist <= 65) =>
               last.judgment = "Good" /\ last.base = 50
        /\ (65 < last.dist /\ last.dist <= 100) =>
               last.judgment \in {"Late", "Early"} /\ last.base = 25
        /\ last.dist > 100 => last.judgment = "Miss"

\* a candidate that passes the gates at distance 101, judged a Miss
C2_Witness ==
    /\ last.op = "check_hit"
    /\ last.gated
    /\ last.dist = 101
    /\ last.judgment = "Miss"

\* C3: a non-Miss judgment at combo c adds base * multiplier(c) to the score
\* (multiplier 1 below 100, 2 below 200, 3 below 300, 4 from 300), makes the combo
\* c + 1 and max_combo the larger of max_combo and c + 1, and leaves misses alone
C3_HitScoring ==
    [][(last'.op = "check_hit" /\ last'.judgment \in Hits) =>
         LET c == hit_detector.combo
             m == IF c < 100 THEN 1 ELSE IF c < 200 THEN 2 ELSE IF c < 300 THEN 3 ELSE 4
             base == CASE last'.judgment = "Perfect" -> 100
                       [] last'.judgment = "Good" -> 50
                       [] OTHER -> 25
         IN  /\ hit_detector'.score = hit_detector.score + base * m
             /\ hit_detector'.combo = c + 1
             /\ hit_detector'.max_combo =
                    (IF hit_detector.max_combo > c + 1 THEN hit_detector.max_combo
                     ELSE c + 1)
             /\ hit_detector'.misses = hit_detector.misses]_vars

\* a hit judged at combo 200, the first of the 3x tier
C3_Witness ==
    /\ last.op = "check_hit"
    /\ last.judgment \in Hits
    /\ hit_detector.combo = 201

\* C4: a Miss, from a key press or from an arrow passing its hit zone, sets the
\* combo to 0, adds exactly 1 to misses and leaves score and max_combo alone; a
\* non-Miss judgment never lowers the combo
C4_MissEffects ==
    [][/\ (last'.op = "check_hit" /\ last'.judgment = "Miss") =>
              /\ hit_detector'.combo = 0
              /\ hit_detector'.misses = hit_detector.misses + 1
              /\ hit_detector'.score = hit_detector.score
              /\ hit_detector'.max_combo = hit_detector.max_combo
       /\ last'.op = "update" =>
              /\ hit_detector'.misses =
                     hit_detector.misses + Cardinality(last'.swept)
              /\ hit_detector'.combo =
                     (IF last'.swept = {} THEN hit_detector.combo ELSE 0)
              /\ hit_detector'.score = hit_detector.score
              /\ hit_detector'.max_combo = hit_detector.max_combo
       /\ (last'.op = "check_hit" /\ last'.judgment \in Hits) =>
              hit_detector'.combo >= hit_detector.combo]_vars

\* an arrow passes its hit zone while a combo is running
C4_Witness ==
    /\ last.op = "update"
    /\ last.swept # {}
    /\ hit_detector.combo = 0
    /\ hit_detector.max_combo > 0
    /\ hit_detector.misses = 1

\* C6: every arrow that has left the group was hit exactly once or counted exactly
\* once as a miss, never both and never neither
C6_NoteAccounting ==
    \A id \in DOMAIN ledger :
        id \notin Ids(arrow_group) => ledger[id].hit + ledger[id].miss = 1

(***************************************************************************)
(* Properties of the spawn scheduler                                       *)
(***************************************************************************)
RECURSIVE ValidRows(_)
\* the rows of a CSV that keep a valid key, in file order: the events of the session
ValidRows(rows) ==
    IF rows = <<>> THEN <<>>
    ELSE IF valid_keys(Head(rows).keys) # <<>>
    THEN <<Head(rows)>> \o ValidRows(Tail(rows))
    ELSE ValidRows(Tail(rows))

LoggedTimestamps == [i \in 1..Len(spawn_log) |-> spawn_log[i].timestamp]

\* every spawn so far happened in a tick with now in [T - SPAWN_WINDOW, T]
SpawnedInWindow ==
    \A i \in 1..Len(spawn_log) :
        /\ spawn_log[i].timestamp - spawn_log[i].at <= 1550
        /\ spawn_log[i].timestamp - spawn_log[i].at >= 0

C8_RowsSpawnOwnLanes ==
    /\ \A i \in 1..Len(spawn_log) :
           spawn_log[i].keys = valid_keys(ValidRows(session.rows)[i].keys)
    /\ LoggedTimestamps \o spawn_queue = LoadQueue(session.rows)

(***************************************************************************)
(* Properties of the score state machine and of the mode controller        *)
(***************************************************************************)
\* C5: from combo 0 and score 0, after N consecutive Perfect judgments the score is
\* 100 * (min(N,100) + 2 min(max(N-100,0),100) + 3 min(max(N-200,0),100)
\*        + 4 max(N-300,0))
C5_MultiplierTiering ==
    LET N == hit_detector.combo
    IN  hit_detector.score =
            100 * (Min(N, 100) + 2 * Min(Max(N - 100, 0), 100)
                     + 3 * Min(Max(N - 200, 0), 100) + 4 * Max(N - 300, 0))

\* the run has passed the 300th hit: the 301st was scored at 4x
C5_Witness ==
    /\ last.op = "handle_hit"
    /\ hit_detector.combo = 301
    /\ hit_detector.score = 60400

\* C9: gravity_mode changes only in a step that finds a countdown that has been
\* active for at least 5 s (a countdown's start is stamped when it becomes active
\* and is not moved while it is active); it never changes while no countdown is
\* active
C9_FlipsOnlyAfterCountdown ==
    [][/\ gravity_mode' # gravity_mode =>
              /\ show_countdown
              /\ ticks - countdown_start >= 5000
       /\ (show_countdown' /\ ~show_countdown) => countdown_start' = ticks
       /\ (show_countdown' /\ show_countdown) => countdown_start' = countdown_start
       /\ gravity_mode' # gravity_mode =>
              outline_group' = [k \in DOMAIN outline_group |-> OutlineY(gravity_mode')]
      ]_vars

\* the direction has just flipped into gravity mode
C9_Witness ==
    /\ last.op = "update"
    /\ last.flipped
    /\ gravity_mode
    /\ \A k \in DOMAIN outline_group : outline_group[k] = 0

\* C10: with deadline D, a tick with now < D starts no countdown, a tick with
\* now >= D and no countdown active starts one, a tick with an active countdown
\* flips the direction exactly when now - countdown_start >= 5 s, and at the flip
\* the countdown is cleared and the new deadline lies in [now + 15 s, now + 30 s]
C10_GravityFlipTiming ==
    [][IF last'.op = "update" /\ GravityTier(session.difficulty)
       THEN LET now == ticks
                D == next_gravity_switch
            IN  /\ (~show_countdown /\ now < D) =>
                       /\ ~show_countdown'
                       /\ gravity_mode' = gravity_mode
                /\ (~show_countdown /\ now >= D) =>
                       /\ show_countdown'
                       /\ countdown_start' = now
                       /\ gravity_mode' = gravity_mode
                /\ (show_countdown /\ now - countdown_start < 5000) =>
                       /\ show_countdown'
                       /\ gravity_mode' = gravity_mode
                       /\ next_gravity_switch' = D
                /\ (show_countdown /\ now - countdown_start >= 5000) =>
                       /\ gravity_mode' = ~gravity_mode
                       /\ ~show_countdown'
                       /\ next_gravity_switch' >= now + 15000
                       /\ next_gravity_switch' <= now + 30000
       ELSE UNCHANGED <<gravity_mode, show_countdown, countdown_start,
                        next_gravity_switch>>]_vars

\* a flip in the tick exactly 5 s after the countdown started, rescheduled with the
\* longest draw
C10_Witness ==
    /\ last.op = "update"
    /\ last.flipped
    /\ ~show_countdown
    /\ last.at - countdown_start = 5000
    /\ next_gravity_switch = last.at + 30000

(***************************************************************************)
(* Properties of pausing                                                   *)
(***************************************************************************)
\* the value of get_ticks() at the moment of the pause, while paused
PausedAt == start_ticks + pause_time

\* C11: the time paused counts neither toward next_gravity_switch nor toward the
\* countdown: at the resume the time left until the deadline (no countdown active)
\* and the age of the countdown (countdown active) are what they were at the pause
C11_PauseSuspendsModeController ==
    [][(last'.op = "resume_game" /\ GravityTier(session.difficulty)) =>
          /\ ~show_countdown' =>
                 next_gravity_switch' - ticks = next_gravity_switch - PausedAt
          /\ show_countdown' =>
                 ticks - countdown_start' = PausedAt - countdown_start]_vars

\* C12: while the game is paused no arrow moves, no event is consumed or spawned,
\* no miss is counted, and score, combo and misses keep their values
C12_PauseFreezesCore ==
    [][paused =>
          /\ arrow_group' = arrow_group
          /\ spawn_queue' = spawn_queue
          /\ hit_detector'.score = hit_detector.score
          /\ hit_detector'.combo = hit_detector.combo
          /\ hit_detector'.misses = hit_detector.misses]_vars

\* C13: pause_game records the session elapsed time, nothing changes the record
\* while paused, and right after resume_game the session elapsed time equals it,
\* whatever the wall-clock length of the pause
C13_PauseResumeRoundTrip ==
    [][/\ last'.op = "pause_game" => pause_time' = ticks - start_ticks
       /\ (paused /\ last'.op # "resume_game") =>
              /\ pause_time' = pause_time
              /\ start_ticks' = start_ticks
       /\ last'.op = "resume_game" => ticks - start_ticks' = pause_time]_vars

\* a resume after at least 50 ms of pause, 32 ms or more into the session
C13_Witness ==
    /\ last.op = "resume_game"
    /\ last.paused_for >= 50
    /\ last.at - start_ticks >= 32

\* C14: a key press dispatched to check_hit either changes nothing, or applies the
\* hit transition (combo + 1, one arrow removed, misses kept), or applies the miss
\* transition (misses + 1, combo 0, score and arrows kept): exactly one of the three
C14_OneJudgmentPerPress ==
    [][last'.op = "check_hit" =>
         LET nothing == UNCHANGED programVars
             hit == /\ hit_detector'.combo = hit_detector.combo + 1
                    /\ hit_detector'.misses = hit_detector.misses
                    /\ hit_detector'.score >= hit_detector.score + 25
                    /\ arrow_group' \subseteq arrow_group
                    /\ Cardinality(arrow_group \ arrow_group') = 1
             miss == /\ hit_detector'.combo = 0
                     /\ hit_detector'.misses = hit_detector.misses + 1
                     /\ hit_detector'.score = hit_detector.score
                     /\ arrow_group' = arrow_group
         IN  /\ nothing \/ hit \/ miss
             /\ ~(nothing /\ hit) /\ ~(nothing /\ miss) /\ ~(hit /\ miss)]_vars

\* a press whose candidate fails the vertical gate: one miss, the arrow stays
C14_Witness ==
    /\ last.op = "check_hit"
    /\ last.judgment = "Miss"
    /\ last.dist >= 135
    /\ ~last.gated
    /\ hit_detector.misses = 1
    /\ \E a \in arrow_group : a.key = last.key


(***************************************************************************)
(* The timeline loader                                                     *)
(***************************************************************************)
Loads == last'.op = "add_timestamps" /\ session.source = "ok"

Recognized(keys) == SelectSeq(keys, LAMBDA k : k \in Keys)

Timestamps(rows) == [i \in 1..Len(rows) |-> rows[i].timestamp]

\* the timestamps of the rows that keep a recognized lane, in file order
KeptTimestamps(rows) ==
    Timestamps(SelectSeq(rows, LAMBDA r : Recognized(r.keys) # <<>>))

CellCount(rows, cell) == Cardinality({i \in 1..Len(rows) : rows[i].keys = cell})

Cells(rows) == {rows[i].keys : i \in 1..Len(rows)}

SameCells(a, b) ==
    \A cell \in Cells(a) \cup Cells(b) : CellCount(a, cell) = CellCount(b, cell)

WellFormed(rows) == SelectSeq(rows, LAMBDA r : r.timestamp # NotANumber)

C17_MissingSourceIsEmptyTimeline ==
    (session.source # "ok" /\ pc # "load") =>
        /\ spawn_queue = <<>>
        /\ timestamp_key_dict = <<>>
        /\ spawn_log = <<>>
        /\ last.spawned = {}
        /\ arrow_group = {}
        /\ next_id = 1

C17_Witness ==
    /\ session.source = "file_not_found"
    /\ session.rows # <<>>
    /\ last.op = "update"
    /\ ~last.ended
    /\ frames >= 3
    /\ ~paused

C19_MalformedRowOutcomes ==
    [][(Loads /\ \E i \in 1..Len(session.rows) :
                    session.rows[i].timestamp = NotANumber) =>
         \/ spawn_queue' = <<>>
         \/ spawn_queue' = KeptTimestamps(WellFormed(session.rows))]_vars

(***************************************************************************)
(* The end of a session                                                    *)
(***************************************************************************)
\* an update() of a running, unpaused session in normal mode
NormalTick ==
    /\ last'.op = "update"
    /\ session.mode = "normal"
    /\ ~paused /\ ~waiting_for_results /\ ~show_results

MusicFinished == music_started' /\ ~music_busy'

VideoFinished == session.background_video /\ ~video_active'

NothingLeft == arrow_group = {} /\ spawn_queue = <<>>

\* the results popup comes up in a tick of the waiting state, the first one that is
\* RESULTS_DELAY after the end
ResultsAfterDelay ==
    /\ (show_results' /\ ~show_results) =>
          /\ last'.op = "update" /\ waiting_for_results
          /\ ticks - song_end_time >= RESULTS_DELAY
    /\ (last'.op = "update" /\ waiting_for_results
          /\ ticks - song_end_time >= RESULTS_DELAY) => show_results'

C20_MusicFailureIsMusicAbsent ==
    [][(/\ last'.op = "update"
        /\ ~paused /\ ~waiting_for_results /\ ~show_results
        /\ ~music_started /\ music_started' /\ ~music_busy'
        /\ ~VideoFinished /\ ~NothingLeft) =>
         /\ ~waiting_for_results'
         /\ spawning_allowed'
         /\ last'.cleared = {}]_vars

(***************************************************************************)
(* Candidate selection and the effect of a press on the active collection  *)
(***************************************************************************)
\* a press that passed the cooldown
Judged == last'.op = "check_hit" /\ last'.judgment # "dropped"

LaneNotes(key) == {a \in arrow_group : a.key = key}

\* the vertical distance of a note's hitbox centre from its lane's hit zone centre
ZoneDist(a) ==
    Abs((a.hy + hitbox_height \div 2) - (outline_group[a.key] + IMAGE_HEIGHT \div 2))

Closest(key) ==
    {a \in LaneNotes(key) : \A b \in LaneNotes(key) : ZoneDist(a) <= ZoneDist(b)}

\* the note's hitbox and its lane's hit zone share more than an edge vertically
OverlapsZone(a) ==
    /\ a.hy < outline_group[a.key] + IMAGE_HEIGHT
    /\ a.hy + hitbox_height > outline_group[a.key]

\* C21: a judged press on a lane without a note is a Miss; a hit credits one note,
\* a note of the pressed lane that no other note of the lane is closer than; when
\* the closest note has no positive vertical overlap with the zone the press is a
\* Miss; when it is within the Good margin the press is a hit
C21_CandidateSelection ==
    [][Judged =>
         LET key == last'.key
         IN  /\ LaneNotes(key) = {} => (last'.judgment = "Miss" /\ last'.hit = {})
             /\ last'.judgment \in Hits =>
                  \E a \in Closest(key) : last'.hit = {a.id} /\ OverlapsZone(a)
             /\ (\E a \in Closest(key) : ~OverlapsZone(a)) => last'.judgment = "Miss"
             /\ (\E a \in Closest(key) : ZoneDist(a) <= HIT_MARGIN_GOOD) =>
                  last'.judgment \in Hits]_vars

\* the closer of two notes of the lane was credited, the note added first stays
C21_Witness ==
    /\ last.op = "check_hit"
    /\ last.key = "d"
    /\ last.judgment = "Perfect"
    /\ last.hit = {2}
    /\ \E a \in arrow_group : a.id = 1 /\ a.key = "d"

\* C22: a hit removes exactly one note, the credited note of the pressed lane; a
\* Miss and a dropped press remove none; no press adds or moves a note, and the
\* notes of the other lanes stay as they are
C22_PressEffectOnNotes ==
    [][last'.op = "check_hit" =>
         /\ arrow_group' \subseteq arrow_group
         /\ \A a \in arrow_group : a.key # last'.key => a \in arrow_group'
         /\ last'.judgment \in Hits =>
              /\ Cardinality(arrow_group \ arrow_group') = 1
              /\ \A a \in arrow_group \ arrow_group' :
                    a \in Closest(last'.key) /\ last'.hit = {a.id}
         /\ last'.judgment \notin Hits => arrow_group' = arrow_group]_vars

\* a hit in a lane with two notes, while another lane has one
C22_Witness ==
    /\ last.op = "check_hit"
    /\ last.judgment \in Hits
    /\ last.key = "d"
    /\ Cardinality(LaneNotes("d")) = 1
    /\ Cardinality(LaneNotes("f")) = 1
    /\ Cardinality(last.hit) = 1

(***************************************************************************)
(* The Late tier                                                           *)
(***************************************************************************)
HitboxCentre(a) == a.hy + hitbox_height \div 2

ZoneCentre(key) == outline_group[key] + IMAGE_HEIGHT \div 2

\* the note's centre is beyond the zone's centre in the direction of travel
PassedZoneCentre(a) ==
    IF gravity_mode THEN HitboxCentre(a) < ZoneCentre(a.key)
    ELSE HitboxCentre(a) > ZoneCentre(a.key)

\* C23: a hit of the Late tier is reported as Late iff the credited note has passed
\* the zone centre in its direction of travel (below it going down, above it going
\* up), and as Early otherwise
C23_DirectionAwareLate ==
    [][(Judged /\ last'.judgment \in {"Late", "Early"}) =>
         \A a \in arrow_group \ arrow_group' :
             (last'.judgment = "Late") <=> PassedZoneCentre(a)]_vars

\* the hitbox reaches into the zone's vertical extent (is_within_outline)
WithinZoneBounds(a) ==
    /\ a.hy + hitbox_height >= outline_group[a.key]
    /\ a.hy <= outline_group[a.key] + IMAGE_HEIGHT

NewTiles == {a \in arrow_group' : a.id \in last'.spawned}

\* the note's visual bounds and its lane's hit zone share more than an edge
RectOverlapsZone(a, oy) == a.y < oy + IMAGE_HEIGHT /\ a.y + IMAGE_HEIGHT > oy

\* C25: whenever a press can be judged every active note's hitbox is centred on the
\* note's visual bounds, and a note is credited only while its visual bounds overlap
\* its lane's hit zone
C25_HitboxConsistency ==
    /\ []((pc = "events" /\ ~paused /\ ~show_results) =>
            \A a \in arrow_group : a.hy = HitboxYFor(a.y))
    /\ [][(Judged /\ last'.judgment \in Hits) =>
            \A a \in arrow_group \ arrow_group' :
                RectOverlapsZone(a, outline_group[a.key])]_vars

\* C28: the notes one event spawns are in distinct lanes
C28_NoRepeatedLane ==
    [][last'.op = "update" =>
         \A a \in NewTiles, b \in NewTiles : a.key = b.key => a = b]_vars

\* C29: a note spawned in a tick that runs in forward direction has its top at
\* -100, one spawned in reversed direction has its bottom at WINDOW_HEIGHT + 100,
\* each in the column of its lane's hit zone
C29_SpawnAnchor ==
    [][last'.op = "update" =>
         \A a \in NewTiles :
             /\ ~gravity_mode' => a.y = -100
             /\ gravity_mode' => a.y + IMAGE_HEIGHT = WINDOW_HEIGHT + 100
             /\ a.key \in Keys
             /\ spawn_x(a.key) = outline_x(a.key)]_vars

\* a pattern spawned at the bottom edge while the direction is reversed
C29_Witness ==
    /\ last.op = "update"
    /\ session.use_patterns
    /\ gravity_mode
    /\ Cardinality(last.spawned) = 3
    /\ \A a \in arrow_group : a.id \in last.spawned => a.y = 850

\* an update() of an unpaused session that moves the notes
MovingTick ==
    /\ last'.op = "update"
    /\ ~paused /\ ~waiting_for_results /\ ~show_results
    /\ ~last'.ended

\* after the move: the note is beyond its lane's hit zone in the direction of travel
BeyondZone(a) ==
    IF gravity_mode' THEN a.y + IMAGE_HEIGHT < outline_group'[a.key]
    ELSE a.y > outline_group'[a.key] + IMAGE_HEIGHT

\* C26: in an unpaused tick that moves the notes, every note that is beyond its
\* lane's hit zone after the move (top below the zone's bottom going down, bottom
\* above the zone's top going up) leaves the active collection in that tick and is
\* counted as one Miss; every other note stays, moved, and is not counted
C26_MissSweep ==
    [][MovingTick =>
         LET gone == {a \in arrow_group : BeyondZone(TileUpdate(a, gravity_mode'))}
         IN  /\ \A a \in gone :
                   /\ a.id \notin Ids(arrow_group')
                   /\ ledger'[a.id].miss = ledger[a.id].miss + 1
             /\ \A a \in arrow_group \ gone :
                   /\ TileUpdate(a, gravity_mode') \in arrow_group'
                   /\ ledger'[a.id] = ledger[a.id]
             /\ hit_detector'.misses = hit_detector.misses + Cardinality(gone)
             /\ gone # {} => hit_detector'.combo = 0
             /\ gone = {} => hit_detector' = hit_detector]_vars

\* a note going up has left the zone through its top and was counted
C26_Witness ==
    /\ last.op = "update"
    /\ gravity_mode
    /\ ~paused
    /\ last.swept = {1}
    /\ arrow_group = {}
    /\ hit_detector.misses = 1
    /\ ledger[1].miss = 1

\* C27: the timestamps consumed so far are in non-decreasing order; a tick consumes
\* at most one event, the head of the queue
C27_SpawnOrder ==
    /\ [](\A i \in 1..Len(spawn_log), j \in 1..Len(spawn_log) :
             i < j => spawn_log[i].timestamp <= spawn_log[j].timestamp)
    /\ [][/\ Len(spawn_log') <= Len(spawn_log) + 1
          /\ Len(spawn_log') = Len(spawn_log) + 1 =>
                /\ spawn_queue # <<>>
                /\ spawn_log'[Len(spawn_log')].timestamp = Head(spawn_queue)
                /\ spawn_queue' = Tail(spawn_queue)
          /\ Len(spawn_log') = Len(spawn_log) => spawn_queue' = spawn_queue
                                                   \/ last'.op = "add_timestamps"]_vars

(***************************************************************************)
(* Hit zones                                                               *)
(***************************************************************************)
\* C30: the four hit zones are at y = WINDOW_HEIGHT - 150 exactly while the direction
\* is forward and at y = 0 exactly while it is reversed, and their positions change
\* only in the tick that flips the direction
C30_HitZonesFollowDirection ==
    /\ [](/\ DOMAIN outline_group = Keys
          /\ ~gravity_mode <=> \A k \in Keys : outline_group[k] = WINDOW_HEIGHT - 150
          /\ gravity_mode <=> \A k \in Keys : outline_group[k] = 0)
    /\ [][outline_group' # outline_group =>
            /\ last'.op = "update"
            /\ gravity_mode' # gravity_mode]_vars

\* the direction has just flipped back to forward
C30_Witness ==
    /\ last.op = "update"
    /\ last.flipped
    /\ ~gravity_mode
    /\ \A k \in Keys : outline_group[k] = 750

(***************************************************************************)
(* The mode controller and the difficulty                                  *)
(***************************************************************************)
\* C31: in a session whose difficulty is neither medium nor hard the direction is
\* forward, no countdown is active and the hit zones are at the bottom anchor, in
\* every state
C31_ControllerOnlyForTiers ==
    (session.difficulty \notin {"medium", "hard"}) =>
        /\ ~gravity_mode
        /\ ~show_countdown
        /\ \A k \in Keys : outline_group[k] = WINDOW_HEIGHT - HIT_ZONE_EDGE_DISTANCE

\* ticks of a session with another difficulty value, 20 s in
C31_Witness ==
    /\ session.difficulty = "endless"
    /\ last.op = "update"
    /\ frames >= 2
    /\ last.at - start_ticks >= GRAVITY_SWITCH_MIN
    /\ last.at >= next_gravity_switch
    /\ ~gravity_mode


(***************************************************************************)
(* The pattern pools                                                       *)
(***************************************************************************)
RECURSIVE SumSeq(_)
SumSeq(s) == IF s = <<>> THEN 0 ELSE Head(s) + SumSeq(Tail(s))

\* the weights of the pool are a distribution over its entries: one weight per entry,
\* together 1 (100 hundredths), and no entry with more lanes weighs more than one
\* with fewer
WeightsWellFormed(p) ==
    /\ Len(p.weights) = Len(p.pool)
    /\ SumSeq(p.weights) = 100
    /\ \A i, j \in 1..Len(p.pool) :
           Len(p.pool[i]) > Len(p.pool[j]) => p.weights[i] <= p.weights[j]

\* C32: the pool a pattern session draws from has one weight per entry, weights that
\* sum to 1, and no larger weight for a pattern with more lanes
C32_PoolWeights ==
    (session.use_patterns /\ session.difficulty \in PoolTiers) =>
        WeightsWellFormed(pattern_pools(session.difficulty))

\* the pool the text names for a difficulty: its own, the easy one when it has none
PoolOf(difficulty) ==
    LET tier == IF difficulty \in PoolTiers THEN difficulty ELSE "easy"
    IN  {pattern_pools(tier).pool[i] : i \in 1..Len(pattern_pools(tier).pool)}

\* C33: in a pattern session a tick consumes at most one timestamp, and the tick that
\* consumes one logs one lane list of the pool of the session's difficulty (the easy
\* pool when the difficulty has none) and spawns one tile per lane of the list
C33_DrawAtSpawn ==
    [][session.use_patterns =>
         /\ Len(spawn_log') <= Len(spawn_log) + 1
         /\ Len(spawn_queue') = Len(spawn_queue) - (Len(spawn_log') - Len(spawn_log))
         /\ Len(spawn_log') = Len(spawn_log) + 1 =>
                LET e == spawn_log'[Len(spawn_log')]
                IN  /\ e.timestamp = Head(spawn_queue)
                    /\ e.keys \in PoolOf(session.difficulty)
                    /\ Cardinality(e.ids) = Len(e.keys)
                    /\ \A k \in Keys :
                           Cardinality({a \in arrow_group' : a.id \in e.ids /\ a.key = k})
                             = Cardinality({i \in 1..Len(e.keys) : e.keys[i] = k})]_vars

\* a session whose difficulty has no pool drew the two-lane list of the easy pool
C33_Witness ==
    /\ session.use_patterns /\ session.difficulty = "endless"
    /\ spawn_log # <<>>
    /\ spawn_log[Len(spawn_log)].keys = <<"f", "j">>
    /\ Cardinality(last.spawned) = 2

(***************************************************************************)
(* The sound cues                                                          *)
(***************************************************************************)
\* the request numbers of a sequence of cues
CueNumbers(q) == [i \in 1..Len(q) |-> q[i].n]

Ascending(s) == \A i, j \in 1..Len(s) : i < j => s[i] < s[j]

\* the cues not yet played, in the order the worker will meet them: the one it
\* holds, then the queue
Pending ==
    (IF sound_thread.pc = "play" THEN <<sound_thread.cue.n>> ELSE <<>>)
        \o CueNumbers(sound_queue)

\* a step of the game loop that made a judgment
JudgingStep ==
    \/ last'.op = "check_hit" /\ last'.judgment # "dropped"
    \/ last'.op = "update" /\ last'.swept # {}

\* C34: a lane key press of the running game is processed whatever the worker is
\* doing, and a judgment only appends its cue to the queue and leaves the worker
\* alone; a step of the worker changes nothing of the game, and a play() that fails
\* or is skipped for a missing sound takes the worker back to its loop; the cues
\* played are distinct requests in request order, followed in that order by those
\* still pending
C34_FireAndForget ==
    /\ [](/\ Ascending(played \o Pending)
          /\ \A i \in 1..Len(played \o Pending) : (played \o Pending)[i] \in 1..requested
          /\ (pc = "events" /\ RunsGameBranch /\ ~show_results) =>
                 \A key \in Keys : ENABLED KeyDown(key))
    /\ [][/\ JudgingStep =>
                /\ UNCHANGED <<sound_thread, played, running, sounds>>
                /\ Len(sound_queue') > Len(sound_queue)
                /\ SubSeq(sound_queue', 1, Len(sound_queue)) = sound_queue
                /\ pc' = IF last'.op = "update" THEN "events" ELSE pc
          /\ last'.op = "sound_thread" =>
                /\ UNCHANGED <<programVars, ledger, frames>>
                /\ last'.judgment \in {"raised", "skipped", "played", "timeout"} =>
                       sound_thread'.pc = "while"]_vars

\* a press is judged while the worker holds the cue of a sound that did not load,
\* after an earlier cue was played
C34_Witness ==
    /\ last.op = "check_hit" /\ last.judgment = "Miss"
    /\ sound_thread.pc = "play"
    /\ ~sounds[sound_thread.cue.name]
    /\ played = <<1>>
    /\ requested = 3

(***************************************************************************)
(* The counters                                                            *)
(***************************************************************************)
\* C35: score, combo and misses are never negative and max_combo is never below
\* combo, in every state; no step lowers score, misses or max_combo
C35_CounterInvariants ==
    /\ [](/\ hit_detector.score >= 0
          /\ hit_detector.combo >= 0
          /\ hit_detector.misses >= 0
          /\ hit_detector.max_combo >= hit_detector.combo)
    /\ [][/\ hit_detector'.score >= hit_detector.score
          /\ hit_detector'.misses >= hit_detector.misses
          /\ hit_detector'.max_combo >= hit_detector.max_combo]_vars

\* a miss after a hit: the combo is back at 0 below the best combo, the score kept
C35_Witness ==
    /\ last.op = "check_hit" /\ last.judgment = "Miss"
    /\ hit_detector.combo = 0
    /\ hit_detector.max_combo > 0
    /\ hit_detector.score > 0
    /\ hit_detector.misses > 0

(***************************************************************************)
(* The spawn queue over time                                               *)
(***************************************************************************)
\* the head of the queue is earlier than the elapsed time at which the last event
\* was consumed, so earlier than the elapsed time of every later tick
Stalled ==
    /\ spawning_allowed
    /\ spawn_queue # <<>>
    /\ spawn_log # <<>>
    /\ Head(spawn_queue) < spawn_log[Len(spawn_log)].at

\* no tick takes anything off a stalled queue
StalledIsPermanent == [][Stalled => (Stalled' /\ spawn_queue' = spawn_queue)]_vars

\* C36: the queue is never blocked by a head event whose timestamp is earlier than
\* the elapsed time (a head that no later tick can consume)
C36_NoStalledHead == ~Stalled

(***************************************************************************)
(* Notes in flight                                                         *)
(***************************************************************************)
InFlight(id) == \E a \in arrow_group : a.id = id

\* C37: in a session that keeps ticking, every note on the screen eventually leaves
\* the active collection, whether or not the direction flips while it is in flight
C37_NoteLiveness == \A id \in 1..2 : InFlight(id) ~> ~InFlight(id)

\* a note that was going down when the direction flipped has been swept at the top
C37_Witness ==
    /\ last.op = "update"
    /\ gravity_mode
    /\ next_gravity_switch >= SnapshotTicks + GRAVITY_SWITCH_MIN
    /\ last.swept # {}
    /\ spawn_log = <<>>

(***************************************************************************)
(* The sweep and the judgment                                              *)
(***************************************************************************)
\* what check_hit makes of the arrow `a` when it is the candidate of a press on its
\* lane with the outline at oy
Verdict(a, oy) ==
    IF ~horizontal_overlap(a, a.key) THEN "Miss"
    ELSE IF vertical_overlap(a, oy) <= 0 THEN "Miss"
    ELSE classify(a, oy).hit_type

\* C38: a note the sweep of a tick retires is one that a press on its lane would
\* judge a Miss, both where the note was when the tick began and where the sweep
\* finds it, in either direction of travel
C38_SweepAgreesWithJudgment ==
    [][last'.op = "update" =>
         \A a \in arrow_group :
             a.id \in last'.swept =>
                 /\ Verdict(a, outline_group[a.key]) = "Miss"
                 /\ Verdict(TileUpdate(a, gravity_mode'), outline_group'[a.key]) = "Miss"]_vars

\* a note swept while the notes go up, a tick after a press on its lane was a Miss
C38_Witness ==
    /\ last.op = "update"
    /\ gravity_mode
    /\ last.swept # {}
    /\ hit_detector.misses >= 2
    /\ last_judged # <<>>

(***************************************************************************)
(* After the end of the session                                            *)
(***************************************************************************)
\* an end-of-session trigger has fired
Ended == waiting_for_results \/ show_results

\* C39: once a trigger has fired the session stays ended, the active collection is
\* empty, spawning is disabled and no note is spawned, the score does not change,
\* and final_score is the detector's score
C39_EndIsFinal ==
    /\ [](Ended => /\ arrow_group = {}
                    /\ ~spawning_allowed
                    /\ final_score = hit_detector.score)
    /\ [][Ended => /\ Ended'
                    /\ spawn_log' = spawn_log
                    /\ spawn_queue' = spawn_queue
                    /\ next_id' = next_id
                    /\ hit_detector'.score = hit_detector.score
                    /\ final_score' = final_score]_vars

\* a key press judged during the wait for the results, with an event still queued
C39_Witness ==
    /\ waiting_for_results
    /\ last.op = "check_hit" /\ last.judgment = "Miss"
    /\ final_score > 0
    /\ spawn_queue # <<>>
    /\ hit_detector.misses > 0

(***************************************************************************)
(* Two presses in one tick                                                 *)
(***************************************************************************)
\* handle_events with check_hit for one press that is not in cooldown: the detector
\* and the group after it, and the judgment
Press(key, hd, group) ==
    LET o == judge(key, group, outline_group)
    IN  [hd |-> IF o.hit_type = "Miss" THEN handle_miss(hd)
                ELSE handle_hit(hd, o.hit_type, o.base),
         group |-> group \ o.removed,
         hit_type |-> o.hit_type]

\* the press on `first`, then the press on `second`
Both(first, second) ==
    LET p == Press(first, hit_detector, arrow_group)
        q == Press(second, p.hd, p.group)
    IN  [hd |-> q.hd, group |-> q.group,
         judgment |-> (first :> p.hit_type) @@ (second :> q.hit_type)]

\* the event batch of a tick in which neither a press on k1 nor one on k2 would
\* be dropped
Dispatchable(k1, k2) ==
    /\ pc = "events" /\ RunsGameBranch /\ ~show_results
    /\ k1 # k2
    /\ ~in_cooldown(k1, last_key_press_time, ticks)
    /\ ~in_cooldown(k2, last_key_press_time, ticks)

\* the counters and the notes left are those of the other order
SameOutcome(x, y) ==
    /\ x.hd.score = y.hd.score
    /\ x.hd.combo = y.hd.combo
    /\ x.hd.max_combo = y.hd.max_combo
    /\ x.hd.misses = y.hd.misses
    /\ x.group = y.group

\* C40: two judged presses on different lanes in one tick leave the same score,
\* combo, max_combo, misses and notes whichever is dispatched first
C40_OrderIndependent ==
    \A k1, k2 \in Keys :
        Dispatchable(k1, k2) => SameOutcome(Both(k1, k2), Both(k2, k1))

\* C40 as it holds: whichever press is dispatched first, each press gets the same
\* judgment and the same notes are removed, so misses is the same; when both are
\* hits or both are misses, combo and max_combo are the same as well, and so is the
\* score unless the two hits have different base scores and the first of them
\* takes the combo to a multiplier tier; a judged press does what Press computes
C40_OrderIndependentJudgments ==
    /\ [](\A k1, k2 \in Keys :
            Dispatchable(k1, k2) =>
                LET x == Both(k1, k2)
                    y == Both(k2, k1)
                    hits == {k \in {k1, k2} : x.judgment[k] # "Miss"}
                IN  /\ x.judgment = y.judgment
                    /\ x.group = y.group
                    /\ x.hd.misses = y.hd.misses
                    /\ Cardinality(hits) # 1 =>
                           /\ x.hd.combo = y.hd.combo
                           /\ x.hd.max_combo = y.hd.max_combo
                    /\ (/\ Cardinality(hits) # 1
                        /\ \/ x.judgment[k1] = x.judgment[k2]
                           \/ get_combo_multiplier([hit_detector EXCEPT !.combo = @ + 1])
                                = get_combo_multiplier(hit_detector))
                         => x.hd.score = y.hd.score)
    /\ [][(last'.op = "check_hit" /\ last'.judgment # "dropped") =>
              /\ hit_detector' = Press(last'.key, hit_detector, arrow_group).hd
              /\ arrow_group' = Press(last'.key, hit_detector, arrow_group).group
              /\ last'.judgment = Press(last'.key, hit_detector, arrow_group).hit_type]_vars

\* both lanes were hit in one tick, the first hit taking the combo to 100
C40_Witness ==
    /\ last.op = "check_hit"
    /\ "d" \in DOMAIN last_judged /\ "f" \in DOMAIN last_judged
    /\ last_judged["d"] = ticks /\ last_judged["f"] = ticks
    /\ hit_detector.combo = 101
    /\ arrow_group = {}
=============================================================================
